---- MODULE Spec2Model ----
(***************************************************************************)
(* Aptos Aura Weaver: the aura generator (frontend/src/AuraGenerator.tsx), *)
(* the input validation (frontend/src/utils/validation.ts) and the rarity  *)
(* scoring of the Move contract (aura_weaver::aura_nft).                   *)
(*                                                                         *)
(* Text is a sequence of Unicode code points.  The frontend sees it as     *)
(* UTF-16 code units (Utf16), the contract as UTF-8 bytes (Utf8).          *)
(* Real-valued quantities of the sketch are kept exact: an angle or a      *)
(* phase is a record of its rational parts (thousandths of a radian,       *)
(* tenths of pi, a fraction of a full turn), and sin/cos stay symbolic.    *)
(***************************************************************************)
EXTENDS Integers, Sequences, FiniteSets, TLC

VARIABLES
    calls,              \* the last calls of calculate_rarity: <<[tx, seed, base, score]>>
    vcalls,             \* the last calls of validateMoodSeed: <<[seed, isValid]>>
    pcalls,             \* the last calls of getMoodPalette: <<[seed, palette]>>
    moodSeed,           \* state.moodSeed of AppProvider, the moodSeed prop of AuraGenerator
    transactionCount,   \* state.transactionCount, the transactionCount prop
    imageData,          \* state.imageData: what onImageGenerated received last, <<>> for ''
    instance,           \* the mounted AuraGenerator instance, 0 when none is mounted
    mounts,             \* AuraGenerator instances mounted so far
    p5InstanceRef,      \* of the mounted instance: index into sketches, 0 for null
    isGeneratingRef,    \* of the mounted instance
    hasGeneratedRef,    \* of the mounted instance
    cleanup,            \* TRUE when the last effect run returned its cleanup function
    loads,              \* initializeP5 calls awaiting loadP5(): <<[inst, seed, count]>>
    sketches,           \* every p5 instance created so far, in creation order
    timers,             \* pending 150 ms capture timers: set of sketch indices
    delivered,          \* the onImageGenerated calls so far: <<[sketch, at]>>
    clock,              \* wall-clock time
    AuraCollection,     \* aura_nft: account -> <<>> or <<the AuraCollection resource it holds>>
    AuraNFT,            \* aura_nft: the AuraNFT resources of the token objects, as created
    events,             \* the events emitted by committed transactions
    now,                \* timestamp::now_seconds()
    lastTx,             \* the last transaction sent to aura_nft, its outcome, the state before it
    account,            \* the address of the connected wallet, "none" without one
    loading,            \* state.loading of AppProvider
    lastTransactionHash, \* state.lastTransactionHash: index into submitted, 0 for '' or undefined
    runs,               \* the calls of mintNFT of AuraPage so far, each with its position
    submitted,          \* the transactions the wallet signed and submitted
    limiterHits,        \* the store of each rate limiter for the client: [totalHits, resetTime]
    serverTime,         \* Date.now() of the backend, in milliseconds since it started
    lastResponse,       \* the backend's answer to the last request, with what it did for it
    traffic,            \* per documented tier: the client's requests in the tier's window
    client              \* the client: the path it requests, paths and waits it has used

pureVars == <<calls, vcalls, pcalls>>
appVars  == <<moodSeed, transactionCount, imageData>>
refVars  == <<p5InstanceRef, isGeneratingRef, hasGeneratedRef, cleanup>>
genVars  == <<appVars, instance, mounts, refVars, loads, sketches, timers, delivered, clock>>
chainVars == <<AuraCollection, AuraNFT, events, now, lastTx>>
mintVars  == <<account, loading, lastTransactionHash, runs, submitted>>
serverVars == <<limiterHits, serverTime, lastResponse, traffic, client>>
otherVars == <<chainVars, mintVars, serverVars>>
vars     == <<pureVars, genVars, otherVars>>

-----------------------------------------------------------------------------
(* Bounds of the model *)

MaxSeedLen == 100       \* longest seed handed to a pure function
MaxMounts == 2          \* AuraGenerator instances mounted in one behaviour
MaxSketches == 2        \* p5 instances created or awaited in one behaviour
MaxClock == 1           \* wall-clock ticks in one behaviour
MaxMinted == 2          \* tokens minted in one behaviour
MaxTime == 1            \* seconds the chain's clock advances in one behaviour
MaxRuns == 2            \* calls of mintNFT in one behaviour
MaxPaths == 2           \* paths of the backend one client requests in one behaviour
MaxWaits == 1           \* times the client lets a rate-limit window pass in one behaviour
MaxExcess == 1          \* requests the client sends beyond a tier's documented limit
MaxLiveRuns == 1        \* mintNFT runs in one behaviour of SpecMintLive

-----------------------------------------------------------------------------
(* Text *)

Min(a, b) == IF a < b THEN a ELSE b
Max(a, b) == IF a > b THEN a ELSE b

RECURSIVE Flatten(_)
Flatten(ss) ==
    IF ss = <<>> THEN <<>>
    ELSE IF Len(ss) = 1 THEN ss[1]
    ELSE LET half == Len(ss) \div 2
         IN  Flatten(SubSeq(ss, 1, half)) \o Flatten(SubSeq(ss, half + 1, Len(ss)))

\* String.prototype.length / split('') / charCodeAt: the UTF-16 code units of a text
Utf16Units(cp) ==
    IF cp < 65536 THEN <<cp>>
    ELSE <<55296 + ((cp - 65536) \div 1024), 56320 + ((cp - 65536) % 1024)>>

Utf16(text) ==
    IF \A i \in 1..Len(text) : text[i] < 65536 THEN text
    ELSE Flatten([i \in 1..Len(text) |-> Utf16Units(text[i])])

\* std::string::bytes: the UTF-8 bytes of a text
Utf8Bytes(cp) ==
    IF cp < 128 THEN <<cp>>
    ELSE IF cp < 2048 THEN <<192 + (cp \div 64), 128 + (cp % 64)>>
    ELSE IF cp < 65536 THEN <<224 + (cp \div 4096), 128 + ((cp \div 64) % 64), 128 + (cp % 64)>>
    ELSE <<240 + (cp \div 262144), 128 + ((cp \div 4096) % 64),
           128 + ((cp \div 64) % 64), 128 + (cp % 64)>>

Utf8(text) ==
    IF \A i \in 1..Len(text) : text[i] < 128 THEN text
    ELSE Flatten([i \in 1..Len(text) |-> Utf8Bytes(text[i])])

\* String.prototype.toLowerCase on the letters the model uses (A-Z)
LowerUnit(u) == IF u >= 65 /\ u <= 90 THEN u + 32 ELSE u
toLowerCase(units) == [i \in 1..Len(units) |-> LowerUnit(units[i])]

\* String.prototype.includes
includes(s, t) ==
    \E i \in 0..(Len(s) - Len(t)) : SubSeq(s, i + 1, i + Len(t)) = t

\* String.prototype.slice(0, n)
slice0(s, n) == SubSeq(s, 1, Min(n, Len(s)))

\* ECMAScript WhiteSpace and LineTerminator: what trim() strips and \s matches
WhiteSpace ==
    {9, 10, 11, 12, 13, 32, 160, 5760, 8232, 8233, 8239, 8287, 12288, 65279} \cup (8192..8202)

RECURSIVE trimStart(_)
trimStart(s) ==
    IF s # <<>> /\ Head(s) \in WhiteSpace THEN trimStart(Tail(s)) ELSE s

RECURSIVE trimEnd(_)
trimEnd(s) ==
    IF s # <<>> /\ s[Len(s)] \in WhiteSpace THEN trimEnd(SubSeq(s, 1, Len(s) - 1)) ELSE s

trim(s) == trimEnd(trimStart(s))

-----------------------------------------------------------------------------
(* Seeds *)

Happy      == <<104, 97, 112, 112, 121>>                                \* happy
Journey    == <<109, 121, 115, 116, 101, 114, 105, 111, 117, 115, 32, 106, 111, 117,
                114, 110, 101, 121, 32, 116, 104, 114, 111, 117, 103, 104, 32, 116,
                104, 101, 32, 99, 104, 97, 105, 110>>   \* mysterious journey through the chain
Xyz123     == <<120, 121, 122, 49, 50, 51>>                             \* xyz123
Ok         == <<111, 107>>                                              \* ok
CalmWaves  == <<99, 97, 108, 109, 32, 127754, 127754>>                  \* calm + two wave emoji
Empty      == <<>>

\* a seed of n characters that cycles through the first k lower-case letters after 'q'
Pattern(n, k) == [i \in 1..n |-> 113 + ((i - 1) % k)]

-----------------------------------------------------------------------------
(* aura_weaver::aura_nft: rarity *)

\* count_unique_chars_exact stands for a true set-cardinality count
count_unique_chars_exact(bytes) == Cardinality({bytes[i] : i \in 1..Len(bytes)})

count_unique_chars(bytes) ==
    LET length == Len(bytes) IN
    IF length = 0 THEN 0
    ELSE IF length > 20 THEN 15
    ELSE IF length > 10 THEN 10
    ELSE IF length > 5 THEN 8
    ELSE 5

\* base_rarity_swapped has the scores of two tiers exchanged
base_rarity_swapped(tx_count) ==
    IF tx_count > 5000 THEN 90
    ELSE IF tx_count > 1000 THEN 70
    ELSE IF tx_count > 500 THEN 80
    ELSE IF tx_count > 100 THEN 60
    ELSE IF tx_count > 50 THEN 50
    ELSE 40

\* base_rarity_ge uses 'greater or equal' at the tier boundaries
base_rarity_ge(tx_count) ==
    IF tx_count >= 5000 THEN 90
    ELSE IF tx_count >= 1000 THEN 80
    ELSE IF tx_count >= 500 THEN 70
    ELSE IF tx_count >= 100 THEN 60
    ELSE IF tx_count >= 50 THEN 50
    ELSE 40

base_rarity(tx_count) ==
    IF tx_count > 5000 THEN 90
    ELSE IF tx_count > 1000 THEN 80
    ELSE IF tx_count > 500 THEN 70
    ELSE IF tx_count > 100 THEN 60
    ELSE IF tx_count > 50 THEN 50
    ELSE 40

seed_bonus(seed_length) ==
    IF seed_length > 20 THEN 15
    ELSE IF seed_length > 10 THEN 10
    ELSE 5

diversity_bonus(unique_chars) ==
    IF unique_chars > 10 THEN 10
    ELSE IF unique_chars > 5 THEN 5
    ELSE 0

\* clamp_none returns the sum as it is
clamp_none(total_rarity) == total_rarity

clamp_rarity(total_rarity) == IF total_rarity > 100 THEN 100 ELSE total_rarity

\* mood_seed is the String's bytes; string::length is the number of bytes
calculate_rarity(tx_count, mood_seed) ==
    clamp_rarity(base_rarity(tx_count)
                 + seed_bonus(Len(mood_seed))
                 + diversity_bonus(count_unique_chars(mood_seed)))

-----------------------------------------------------------------------------
(* frontend/src/utils/validation.ts: validateMoodSeed, on UTF-16 code units *)

Lt == 60    \* <
Gt == 62    \* >
DoubleQuote == 34
SingleQuote == 39
Equals == 61
Del == 127

ScriptTag   == <<60, 115, 99, 114, 105, 112, 116>>                  \* <script
JavaScript  == <<106, 97, 118, 97, 115, 99, 114, 105, 112, 116, 58>> \* javascript:
DataScheme  == <<100, 97, 116, 97, 58>>                              \* data:
VbScript    == <<118, 98, 115, 99, 114, 105, 112, 116, 58>>          \* vbscript:

\* \w of a regular expression without the u flag
WordUnit(u) ==
    \/ u >= 48 /\ u <= 57
    \/ u >= 65 /\ u <= 90
    \/ u >= 97 /\ u <= 122
    \/ u = 95

\* /on\w+\s*=/i
matchesOnHandler(s) ==
    \E i \in 1..Len(s) :
        /\ i + 3 <= Len(s)
        /\ LowerUnit(s[i]) = 111
        /\ LowerUnit(s[i + 1]) = 110
        /\ \E j \in (i + 2)..Len(s) :
              /\ \A m \in (i + 2)..j : WordUnit(s[m])
              /\ \E k \in j..(Len(s) - 1) :
                    /\ \A m \in (j + 1)..k : s[m] \in WhiteSpace
                    /\ s[k + 1] = Equals

\* the six suspiciousPatterns, any of which rejects the seed
matchesSuspicious(s) ==
    \/ includes(toLowerCase(s), ScriptTag)
    \/ includes(toLowerCase(s), JavaScript)
    \/ includes(toLowerCase(s), DataScheme)
    \/ includes(toLowerCase(s), VbScript)
    \/ matchesOnHandler(s)
    \/ \E i \in 1..Len(s) : s[i] \in {Lt, Gt, DoubleQuote, SingleQuote}

\* /[\u0000-\u001F\u007F]/
controlCharPattern(s) == \E i \in 1..Len(s) : s[i] <= 31 \/ s[i] = Del

minLength == 2
maxLength == 100

\* trimmedInput_none validates the text as typed, without trimming it
trimmedInput_none(units) == units

trimmedInput(units) == trim(units)

\* validateMoodSeed(seed) with the default options; seed is the text's UTF-16 units
validateMoodSeed(seed) ==
    LET trimmedSeed == trimmedInput(seed) IN
    IF trimmedSeed = <<>> THEN [isValid |-> FALSE, error |-> "empty"]
    ELSE IF Len(trimmedSeed) < minLength THEN [isValid |-> FALSE, error |-> "tooShort"]
    ELSE IF Len(trimmedSeed) > maxLength THEN [isValid |-> FALSE, error |-> "tooLong"]
    ELSE IF matchesSuspicious(trimmedSeed) THEN [isValid |-> FALSE, error |-> "invalidCharacters"]
    ELSE IF controlCharPattern(trimmedSeed) THEN [isValid |-> FALSE, error |-> "controlCharacters"]
    ELSE [isValid |-> TRUE, error |-> "none"]

-----------------------------------------------------------------------------
(* frontend/src/AuraGenerator.tsx: palettes *)

MoodHappy      == <<104, 97, 112, 112, 121>>
MoodCalm       == <<99, 97, 108, 109>>
MoodEnergetic  == <<101, 110, 101, 114, 103, 101, 116, 105, 99>>
MoodPeaceful   == <<112, 101, 97, 99, 101, 102, 117, 108>>
MoodMysterious == <<109, 121, 115, 116, 101, 114, 105, 111, 117, 115>>
MoodPassionate == <<112, 97, 115, 115, 105, 111, 110, 97, 116, 101>>
MoodDefault    == <<100, 101, 102, 97, 117, 108, 116>>

PaletteHappy      == <<<<255, 223, 0>>, <<255, 165, 0>>, <<255, 69, 0>>>>
PaletteCalm       == <<<<64, 224, 208>>, <<0, 191, 255>>, <<138, 43, 226>>>>
PaletteEnergetic  == <<<<255, 20, 147>>, <<255, 0, 255>>, <<255, 105, 180>>>>
PalettePeaceful   == <<<<144, 238, 144>>, <<152, 251, 152>>, <<173, 255, 47>>>>
PaletteMysterious == <<<<75, 0, 130>>, <<138, 43, 226>>, <<72, 61, 139>>>>
PalettePassionate == <<<<220, 20, 60>>, <<255, 69, 0>>, <<255, 140, 0>>>>
PaletteDefault    == <<<<100, 149, 237>>, <<65, 105, 225>>, <<30, 144, 255>>>>

\* moodPalettes_reordered lists calm before happy
moodPalettes_reordered ==
    << [mood |-> MoodCalm,       colors |-> PaletteCalm],
       [mood |-> MoodHappy,      colors |-> PaletteHappy],
       [mood |-> MoodEnergetic,  colors |-> PaletteEnergetic],
       [mood |-> MoodPeaceful,   colors |-> PalettePeaceful],
       [mood |-> MoodMysterious, colors |-> PaletteMysterious],
       [mood |-> MoodPassionate, colors |-> PalettePassionate],
       [mood |-> MoodDefault,    colors |-> PaletteDefault] >>

\* Object.entries(moodPalettes): the entries in the order the literal lists them
moodPalettes ==
    << [mood |-> MoodHappy,      colors |-> PaletteHappy],
       [mood |-> MoodCalm,       colors |-> PaletteCalm],
       [mood |-> MoodEnergetic,  colors |-> PaletteEnergetic],
       [mood |-> MoodPeaceful,   colors |-> PalettePeaceful],
       [mood |-> MoodMysterious, colors |-> PaletteMysterious],
       [mood |-> MoodPassionate, colors |-> PalettePassionate],
       [mood |-> MoodDefault,    colors |-> PaletteDefault] >>

moodMatches(lowerSeed, mood) ==
    includes(lowerSeed, mood) \/ includes(lowerSeed, slice0(mood, 4))

\* getMoodPalette(seed); seed is the text's UTF-16 units
getMoodPalette(seed) ==
    LET lowerSeed == toLowerCase(seed)
        hits == {i \in 1..Len(moodPalettes) : moodMatches(lowerSeed, moodPalettes[i].mood)}
    IN  IF hits = {} THEN PaletteDefault
        ELSE moodPalettes[CHOOSE i \in hits : \A j \in hits : i <= j].colors

-----------------------------------------------------------------------------
(* frontend/src/AuraGenerator.tsx: the sketch *)

RECURSIVE SumUnits(_)
SumUnits(units) ==
    IF units = <<>> THEN 0
    ELSE IF Len(units) = 1 THEN units[1]
    ELSE LET half == Len(units) \div 2
         IN  SumUnits(SubSeq(units, 1, half)) + SumUnits(SubSeq(units, half + 1, Len(units)))

\* moodSeed.split('').reduce((a, b) => a + b.charCodeAt(0), 0)
seedHashOf(seed) == SumUnits(Utf16(seed))

canvasWidth == 150
canvasHeight == 150

\* particleCount_nofloor lacks Math.max(transactionCount, 5)
particleCount_nofloor(count) == Min(count + 10, 35)

\* particleCount_cap50 caps at 50 instead of 35
particleCount_cap50(count) == Min(Max(count, 5) + 10, 50)

particleCount(count) == Min(Max(count, 5) + 10, 35)

\* Math.min(waveCount, 5) with waveCount = Math.floor(transactionCount / 15) + 2
waveformCount(count) == Min((count \div 15) + 2, 5)

\* staleArray keeps the elements the previous sketch pushed
staleArray == IF sketches = <<>> THEN <<>> ELSE sketches[Len(sketches)].particles

\* let particles: any[] = []
emptyArray == <<>>

\* (i / particleCount) * TWO_PI + seedHash * 0.01, as a fraction of a turn plus thousandths
particleAngle(i, n, seedHash) == [turnNum |-> i, turnDen |-> n, milli |-> seedHash * 10]

makeParticle(i, n, palette, seedHash) ==
    LET color == palette[(i % Len(palette)) + 1] IN
    [ x               |-> canvasWidth \div 2,
      y               |-> canvasHeight \div 2,
      angle           |-> particleAngle(i, n, seedHash),
      baseRadius      |-> 40 + (i % 4) * 20,
      radiusVariation |-> 15 + (i % 3) * 10,
      size            |-> 4 + (i % 3) * 2,
      r               |-> Min(255, color[1] + ((seedHash + i * 23) % 40)),
      g               |-> Min(255, color[2] + ((seedHash + i * 37) % 40)),
      b               |-> Min(255, color[3] + ((seedHash + i * 41) % 40)),
      phaseOffset     |-> i * 200,
      type            |-> i % 3 ]

setupParticles(count, palette, seedHash) ==
    emptyArray \o [k \in 1..particleCount(count) |->
                      makeParticle(k - 1, particleCount(count), palette, seedHash)]

\* amplitude, phase = i * PI * 0.4 + seedHash * 0.01, color, alpha
makeWaveform(i, palette, seedHash) ==
    [ amplitude |-> 20 + i * 8,
      phase     |-> [piTenths |-> i * 4, milli |-> seedHash * 10],
      color     |-> palette[(i % Len(palette)) + 1],
      alpha     |-> 25 + i * 8 ]

setupWaveforms(count, palette, seedHash) ==
    [k \in 1..waveformCount(count) |-> makeWaveform(k - 1, palette, seedHash)]

-----------------------------------------------------------------------------
(* drawStaticAura: the elements drawn, in the order they are drawn *)

\* the radial gradient: for (r = 150; r > 0; r -= 3) one ellipse of diameter r around
\* the centre, filled with baseColor * 0.15 (in hundredths); the rings are kept as their
\* progression: 50 diameters from 150 down by 3, alpha falling by 0.357 per unit of r
drawGradient(palette) ==
    [ layer |-> "gradient",
      x |-> canvasWidth \div 2, y |-> canvasHeight \div 2,
      fill |-> <<palette[1][1] * 15, palette[1][2] * 15, palette[1][3] * 15>>,
      rings |-> [first |-> 150, step |-> 3, count |-> 50, alphaSlope |-> 357] ]

\* one closed polyline per waveform: for (angle = 0; angle < TWO_PI; angle += 0.2) a vertex
\* at radius 50 + amplitude * sin(angle * 2 + phase); the vertices are kept as their
\* progression: 32 angles 0.2 apart, each with sine argument angle * 2 + the thousandths
\* of phase; stroke alpha is wave.alpha * 0.5 (in halves)
drawWaveform(wave, index) ==
    [ layer |-> "waveform", index |-> index,
      stroke |-> wave.color, alphaHalves |-> wave.alpha,
      amplitude |-> wave.amplitude, sinPiTenths |-> wave.phase.piTenths,
      vertices |-> [count |-> 32, stepMilli |-> 200, sinMilli |-> wave.phase.milli] ]

\* where a particle is drawn: radius + (ampHalves / 2) * sin(sinMilli / 1000) along angle
particlePosition(particle, i, seedHash) ==
    IF particle.type = 0 THEN
        [ radius |-> particle.baseRadius,
          ampHalves |-> particle.radiusVariation,
          sinMilli |-> particle.phaseOffset + seedHash * 10,
          angle |-> [particle.angle EXCEPT !.milli = @ + seedHash] ]
    ELSE IF particle.type = 1 THEN
        [ radius |-> particle.baseRadius + ((i * 5) % 40),
          ampHalves |-> 0,
          sinMilli |-> 0,
          angle |-> [particle.angle EXCEPT !.milli = @ + i * 300] ]
    ELSE
        [ radius |-> particle.baseRadius,
          ampHalves |-> 50,
          sinMilli |-> particle.phaseOffset + i * 500,
          angle |-> particle.angle ]

\* particle.size + (sin(seedHash * 0.01 + i * 0.3) * 0.5 + 0.5) * 3
particleSize(particle, i, seedHash) ==
    [ base |-> particle.size, sinMilli |-> seedHash * 10 + i * 300 ]

\* a particle: two glow rings, the disk, the highlight and, for some, the line to the centre
drawParticle(particle, i, seedHash) ==
    [ layer |-> "particle", index |-> i,
      at |-> particlePosition(particle, i, seedHash),
      size |-> particleSize(particle, i, seedHash),
      fill |-> <<particle.r, particle.g, particle.b>>,
      line |-> (i % 5 = 0) ]

\* coreSize_pulsing follows the wall clock, as an animated core would
coreSize_pulsing(seedHash) == [ base |-> 12, amp |-> 4, sinMilli |-> seedHash * 5 + clock * 1000 ]

\* 12 + Math.sin(seedHash * 0.005) * 4
coreSize(seedHash) == [ base |-> 12, amp |-> 4, sinMilli |-> seedHash * 5 ]

\* the core: three glow rings in the first palette color, then the white disk
drawCore(palette, seedHash) ==
    [ layer |-> "core", size |-> coreSize(seedHash), fill |-> palette[1] ]

\* drawStaticAura_coreFirst draws the core under everything else
drawStaticAura_coreFirst(particles, waveforms, palette, seedHash) ==
    << [layer |-> "background", gray |-> 0], drawCore(palette, seedHash), drawGradient(palette) >>
    \o [k \in 1..Len(waveforms) |-> drawWaveform(waveforms[k], k - 1)]
    \o [k \in 1..Len(particles) |-> drawParticle(particles[k], k - 1, seedHash)]

drawStaticAura(particles, waveforms, palette, seedHash) ==
    << [layer |-> "background", gray |-> 0], drawGradient(palette) >>
    \o [k \in 1..Len(waveforms) |-> drawWaveform(waveforms[k], k - 1)]
    \o [k \in 1..Len(particles) |-> drawParticle(particles[k], k - 1, seedHash)]
    \o << drawCore(palette, seedHash) >>

\* the sketch function followed by p.setup: what new p5(sketch, container) runs
newSketch(inst, seed, count) ==
    LET seedHash  == seedHashOf(seed)
        palette   == getMoodPalette(Utf16(seed))
        particles == setupParticles(count, palette, seedHash)
        waveforms == setupWaveforms(count, palette, seedHash)
    IN  [ inst      |-> inst,
          seed      |-> seed,
          count     |-> count,
          seedHash  |-> seedHash,
          palette   |-> palette,
          particles |-> particles,
          waveforms |-> waveforms,
          canvas    |-> drawStaticAura(particles, waveforms, palette, seedHash),
          frames    |-> 1,
          looping   |-> FALSE,
          setupAt   |-> clock,
          removed   |-> FALSE ]

\* canvas.canvas.toDataURL('image/png'): a lossless encoding of what was drawn
toDataURL(canvas) == [mime |-> "image/png", pixels |-> canvas]

-----------------------------------------------------------------------------
(* frontend/src/AuraGenerator.tsx: the effect on [moodSeed, transactionCount] *)

\* p5InstanceRef.current.remove()
removeSketch(all, index) ==
    IF index = 0 THEN all ELSE [all EXCEPT ![index].removed = TRUE]

\* canGenerate_anySeed lacks the !moodSeed test
canGenerate_anySeed(seed, generating) == ~generating

\* the guard of the effect; p5ContainerRef.current is set while the instance is mounted
canGenerate(seed, generating) == seed # Empty /\ ~generating

\* the refs after the cleanup function of the last effect run, if it returned one
cleanedGenerating == IF cleanup THEN FALSE ELSE isGeneratingRef
cleanedInstanceRef == IF cleanup THEN 0 ELSE p5InstanceRef
cleanedSketches == IF cleanup THEN removeSketch(sketches, p5InstanceRef) ELSE sketches

\* one run of the effect body for instance inst, from the given refs
Effect(inst, seed, count, generating, instanceRef, all) ==
    IF ~canGenerate(seed, generating)
    THEN /\ isGeneratingRef' = generating
         /\ p5InstanceRef' = instanceRef
         /\ sketches' = all
         /\ cleanup' = FALSE
         /\ UNCHANGED <<hasGeneratedRef, loads>>
    ELSE /\ sketches' = removeSketch(all, instanceRef)
         /\ p5InstanceRef' = 0
         /\ hasGeneratedRef' = FALSE
         /\ isGeneratingRef' = TRUE
         /\ loads' = Append(loads, [inst |-> inst, seed |-> seed, count |-> count])
         /\ cleanup' = TRUE

\* AuraPage renders <AuraGenerator moodSeed={state.moodSeed} ...>: a new instance, new refs
Mount(maxMounts, maxSketches) ==
    /\ instance = 0
    /\ mounts < maxMounts
    /\ Len(sketches) + Len(loads) < maxSketches
    /\ instance' = mounts + 1
    /\ mounts' = mounts + 1
    /\ hasGeneratedRef' = FALSE
    /\ Effect(mounts + 1, moodSeed, transactionCount, FALSE, 0, sketches)
    /\ UNCHANGED <<appVars, timers, delivered, clock, pureVars, otherVars>>

\* AuraPage leaves the screen: React runs the cleanup and clears p5ContainerRef
Unmount ==
    /\ instance # 0
    /\ instance' = 0
    /\ sketches' = cleanedSketches
    /\ p5InstanceRef' = 0
    /\ isGeneratingRef' = FALSE
    /\ hasGeneratedRef' = FALSE
    /\ cleanup' = FALSE
    /\ UNCHANGED <<appVars, mounts, loads, timers, delivered, clock, pureVars, otherVars>>

\* the mood input of WalletPage: setMoodSeed(e.target.value)
SetMoodSeed(seed) ==
    /\ instance = 0
    /\ seed # moodSeed
    /\ moodSeed' = seed
    /\ UNCHANGED <<transactionCount, imageData, instance, mounts, refVars, loads, sketches,
                   timers, delivered, clock, pureVars, otherVars>>

\* fetchUserData of WalletPage resolves: setTransactionCount(txCount); a mounted
\* generator sees a changed dependency, so its cleanup runs and then its effect
SetTransactionCount(count, maxSketches) ==
    /\ count # transactionCount
    /\ transactionCount' = count
    /\ IF instance = 0
       THEN UNCHANGED <<refVars, loads, sketches>>
       ELSE /\ Len(sketches) + Len(loads) < maxSketches
            /\ Effect(instance, moodSeed, count,
                      cleanedGenerating, cleanedInstanceRef, cleanedSketches)
    /\ UNCHANGED <<moodSeed, imageData, instance, mounts, timers, delivered, clock, pureVars, otherVars>>

\* loadP5() resolves for the oldest waiting initializeP5: new p5(sketch, container)
\* runs the sketch and p.setup, unless the container is gone
P5Loaded ==
    /\ loads # <<>>
    /\ LET load  == Head(loads)
           index == Len(sketches) + 1
       IN  /\ loads' = Tail(loads)
           /\ IF load.inst = instance
              THEN /\ sketches' = Append(sketches, newSketch(load.inst, load.seed, load.count))
                   /\ p5InstanceRef' = index
                   /\ hasGeneratedRef' = TRUE
                   /\ timers' = IF hasGeneratedRef THEN timers ELSE timers \cup {index}
              ELSE UNCHANGED <<sketches, p5InstanceRef, hasGeneratedRef, timers>>
    /\ UNCHANGED <<appVars, instance, mounts, isGeneratingRef, cleanup, delivered, clock, pureVars, otherVars>>

\* loadP5() rejects: initializeP5().catch(...)
P5LoadFailed ==
    /\ loads # <<>>
    /\ loads' = Tail(loads)
    /\ isGeneratingRef' = IF Head(loads).inst = instance THEN FALSE ELSE isGeneratingRef
    /\ UNCHANGED <<appVars, instance, mounts, p5InstanceRef, hasGeneratedRef, cleanup,
                   sketches, timers, delivered, clock, pureVars, otherVars>>

\* the 150 ms timer of p.setup fires: onImageGeneratedRef.current(imageData), which is
\* handleImageGenerated of AuraPage: setImageData(imageData) and
\* setTransactionHash(''); every timer has the same
\* delay, so the timers fire in the order p.setup set them
CaptureTimer(index) ==
    /\ index \in timers
    /\ \A other \in timers : index <= other
    /\ timers' = timers \ {index}
    /\ imageData' = toDataURL(sketches[index].canvas)
    /\ delivered' = Append(delivered, [sketch |-> index, at |-> clock])
    /\ isGeneratingRef' = IF sketches[index].inst = instance THEN FALSE ELSE isGeneratingRef
    /\ lastTransactionHash' = 0
    /\ UNCHANGED <<moodSeed, transactionCount, instance, mounts, p5InstanceRef,
                   hasGeneratedRef, cleanup, loads, sketches, clock, pureVars,
                   account, loading, runs, submitted, chainVars, serverVars>>

\* time passes; only a pending load or capture timer reads the clock afterwards
Tick ==
    /\ clock < MaxClock
    /\ loads # <<>> \/ timers # {}
    /\ clock' = clock + 1
    /\ UNCHANGED <<appVars, instance, mounts, refVars, loads, sketches, timers, delivered,
                   pureVars, otherVars>>

-----------------------------------------------------------------------------
(* aura_weaver::aura_nft: the entry functions.  A function runs on a world, the      *)
(* resources and the events of the transaction so far; an abort ends it and the VM   *)
(* drops the world, so a transaction commits all of its writes or none.              *)

E_COLLECTION_ALREADY_EXISTS == 2
E_INVALID_MOOD_SEED == 3
E_INVALID_TOKEN_NAME == 4
E_COLLECTION_NOT_FOUND == 5
E_INVALID_URI == 6

MAX_MOOD_SEED_LENGTH == 100
MIN_MOOD_SEED_LENGTH == 1
MAX_TOKEN_NAME_LENGTH == 50

COLLECTION_NAME == "Aptos Aura Collection"

World == [AuraCollection |-> AuraCollection, AuraNFT |-> AuraNFT, events |-> events]

\* the function returned, or reached its end
Executed(world) == [status |-> "executed", code |-> 0, origin |-> "none", world |-> world]

\* assert! failed or abort was reached in the module, or a framework function aborted
Aborted(world, code, origin) ==
    [status |-> "aborted", code |-> code, origin |-> origin, world |-> world]

CollectionCreatedEvent(creator, collection_name, timestamp) ==
    [type |-> "CollectionCreatedEvent", creator |-> creator,
     collection_name |-> collection_name, timestamp |-> timestamp]

\* AuraMintedEvent_noRarity carries no rarity score
AuraMintedEvent_noRarity(creator, token_name, mood_seed, transaction_count, rarity_score, timestamp) ==
    [type |-> "AuraMintedEvent", creator |-> creator, token_name |-> token_name,
     mood_seed |-> mood_seed, transaction_count |-> transaction_count,
     rarity_score |-> 0, timestamp |-> timestamp]

AuraMintedEvent(creator, token_name, mood_seed, transaction_count, rarity_score, timestamp) ==
    [type |-> "AuraMintedEvent", creator |-> creator, token_name |-> token_name,
     mood_seed |-> mood_seed, transaction_count |-> transaction_count,
     rarity_score |-> rarity_score, timestamp |-> timestamp]

\* validate_mood_seed_anyByte lacks the loop over the bytes
validate_mood_seed_anyByte(mood_seed) ==
    IF Len(mood_seed) < MIN_MOOD_SEED_LENGTH THEN E_INVALID_MOOD_SEED
    ELSE IF Len(mood_seed) > MAX_MOOD_SEED_LENGTH THEN E_INVALID_MOOD_SEED
    ELSE 0

\* the abort code of validate_mood_seed, 0 when it returns; mood_seed is the bytes
validate_mood_seed(mood_seed) ==
    IF Len(mood_seed) < MIN_MOOD_SEED_LENGTH THEN E_INVALID_MOOD_SEED
    ELSE IF Len(mood_seed) > MAX_MOOD_SEED_LENGTH THEN E_INVALID_MOOD_SEED
    ELSE IF \E i \in 1..Len(mood_seed) :
               \/ mood_seed[i] < 32
               \/ mood_seed[i] \in {Lt, Gt, DoubleQuote, SingleQuote}
         THEN E_INVALID_MOOD_SEED
    ELSE 0

validate_token_name(token_name) ==
    IF ~(Len(token_name) > 0) THEN E_INVALID_TOKEN_NAME
    ELSE IF ~(Len(token_name) <= MAX_TOKEN_NAME_LENGTH) THEN E_INVALID_TOKEN_NAME
    ELSE 0

validate_uri(uri) == IF ~(Len(uri) > 0) THEN E_INVALID_URI ELSE 0

\* create_collection_internal_again lacks the assert on exists<AuraCollection>
create_collection_internal_again(world, creator, time, frameworkOk) ==
    IF ~frameworkOk THEN Aborted(world, 0, "framework")
    ELSE Executed([world EXCEPT
            !.AuraCollection[creator] =
                << [creator |-> creator, total_minted |-> 0, created_at |-> time] >>,
            !.events = Append(@, CollectionCreatedEvent(creator, COLLECTION_NAME, time))])

\* frameworkOk tells whether the functions of aptos_token_objects called here return
create_collection_internal(world, creator, time, frameworkOk) ==
    IF world.AuraCollection[creator] # <<>>
    THEN Aborted(world, E_COLLECTION_ALREADY_EXISTS, "aura_nft")
    ELSE IF ~frameworkOk THEN Aborted(world, 0, "framework")
    ELSE Executed([world EXCEPT
            !.AuraCollection[creator] =
                << [creator |-> creator, total_minted |-> 0, created_at |-> time] >>,
            !.events = Append(@, CollectionCreatedEvent(creator, COLLECTION_NAME, time))])

create_collection(world, creator, time, frameworkOk) ==
    create_collection_internal(world, creator, time, frameworkOk)

\* the part of mint_aura after the collection is there
mint_token(world, user, mood_seed, transaction_count, token_name, uri, time, frameworkOk) ==
    IF world.AuraCollection[user] = <<>>
    THEN Aborted(world, E_COLLECTION_NOT_FOUND, "aura_nft")
    ELSE LET rarity_score == calculate_rarity(transaction_count, mood_seed) IN
         IF ~frameworkOk THEN Aborted(world, 0, "framework")
         ELSE Executed([world EXCEPT
                 !.AuraNFT = Append(@,
                     [ mood_seed         |-> mood_seed,
                       transaction_count |-> transaction_count,
                       rarity_score      |-> rarity_score,
                       minted_at         |-> time,
                       creator           |-> user,
                       generation        |-> 1,
                       token             |-> [collection |-> COLLECTION_NAME,
                                              name |-> token_name, uri |-> uri] ]),
                 !.AuraCollection[user][1].total_minted = @ + 1,
                 !.events = Append(@, AuraMintedEvent(user, token_name, mood_seed,
                                                      transaction_count, rarity_score, time))])

\* mint_aura_lateChecks validates after the collection was created
mint_aura_lateChecks(world, user, mood_seed, transaction_count, token_name, uri, time, frameworkOk) ==
    LET created == IF world.AuraCollection[user] = <<>>
                   THEN create_collection_internal(world, user, time, frameworkOk)
                   ELSE Executed(world)
    IN  IF created.status = "aborted" THEN created
        ELSE IF validate_mood_seed(mood_seed) # 0
        THEN Aborted(created.world, validate_mood_seed(mood_seed), "aura_nft")
        ELSE IF validate_token_name(token_name) # 0
        THEN Aborted(created.world, validate_token_name(token_name), "aura_nft")
        ELSE IF validate_uri(uri) # 0
        THEN Aborted(created.world, validate_uri(uri), "aura_nft")
        ELSE mint_token(created.world, user, mood_seed, transaction_count, token_name, uri,
                        time, frameworkOk)

mint_aura(world, user, mood_seed, transaction_count, token_name, uri, time, frameworkOk) ==
    IF validate_mood_seed(mood_seed) # 0
    THEN Aborted(world, validate_mood_seed(mood_seed), "aura_nft")
    ELSE IF validate_token_name(token_name) # 0
    THEN Aborted(world, validate_token_name(token_name), "aura_nft")
    ELSE IF validate_uri(uri) # 0
    THEN Aborted(world, validate_uri(uri), "aura_nft")
    ELSE LET created == IF world.AuraCollection[user] = <<>>
                        THEN create_collection_internal(world, user, time, frameworkOk)
                        ELSE Executed(world)
         IN  IF created.status = "aborted" THEN created
             ELSE mint_token(created.world, user, mood_seed, transaction_count, token_name,
                             uri, time, frameworkOk)

-----------------------------------------------------------------------------
(* backend/rateLimiter.js: the limiters.  express-rate-limit keeps, for each client   *)
(* IP, the hits of the current window of a limiter; a request that brings them above  *)
(* max is answered by the limiter with 429 and goes no further.                       *)

generalLimiter == [name |-> "general", windowMs |-> 15 * 60 * 1000, max |-> 100]
uploadLimiter  == [name |-> "upload", windowMs |-> 60 * 60 * 1000, max |-> 10]
nftLimiter     == [name |-> "nft", windowMs |-> 24 * 60 * 60 * 1000, max |-> 5]
healthLimiter  == [name |-> "health", windowMs |-> 60 * 1000, max |-> 60]

Limiters == {generalLimiter, uploadLimiter, nftLimiter, healthLimiter}

NoHits == [totalHits |-> 0, resetTime |-> 0]

\* store.increment(key): the first hit opens a window of windowMs, later ones count in it
increment(store, limiter, time) ==
    LET entry == store[limiter.name] IN
    [store EXCEPT ![limiter.name] =
        IF entry.totalHits > 0 /\ time < entry.resetTime
        THEN [entry EXCEPT !.totalHits = @ + 1]
        ELSE [totalHits |-> 1, resetTime |-> time + limiter.windowMs]]

\* the store drops the hits of a window that has ended
expire(store, time) ==
    [name \in DOMAIN store |->
        IF store[name].totalHits > 0 /\ time < store[name].resetTime THEN store[name]
        ELSE NoHits]

-----------------------------------------------------------------------------
(* backend/server.js: the routes.  Every request passes app.use(generalLimiter), *)
(* then the limiter of its route, then the handler.                              *)

Paths == {"/health", "/test", "/api/upload-file", "/api/upload-metadata", "/api/upload-nft", "/"}

limitersOf(path) ==
    <<generalLimiter>> \o
    ( CASE path = "/health"              -> <<healthLimiter>>
        [] path = "/test"                -> <<generalLimiter>>
        [] path = "/api/upload-file"     -> <<uploadLimiter>>
        [] path = "/api/upload-metadata" -> <<uploadLimiter>>
        [] path = "/api/upload-nft"      -> <<nftLimiter>>
        [] OTHER                         -> <<>> )

\* the middlewares in order: each increments its store, the first above its max answers
RECURSIVE passLimiters(_, _, _)
passLimiters(store, limiters, time) ==
    IF limiters = <<>> THEN [store |-> store, limitedBy |-> "none"]
    ELSE LET limiter == Head(limiters)
             counted == increment(store, limiter, time)
         IN  IF counted[limiter.name].totalHits > limiter.max
             THEN [store |-> counted, limitedBy |-> limiter.name]
             ELSE passLimiters(counted, Tail(limiters), time)

\* https://gateway.pinata.cloud/ipfs/
Gateway ==
    << 104, 116, 116, 112, 115, 58, 47, 47, 103, 97, 116, 101, 119, 97, 121, 46, 112,
       105, 110, 97, 116, 97, 46, 99, 108, 111, 117, 100, 47, 105, 112, 102, 115, 47 >>

KeyName  == << 110, 97, 109, 101 >>                 \* name
KeyImage == << 105, 109, 97, 103, 101 >>            \* image
LeftBrace == 123
RightBrace == 125
Colon == 58
Comma == 44

\* what a response carries besides status and success
NoBody == [hash |-> <<>>, url |-> <<>>, imageHash |-> <<>>, imageUrl |-> <<>>, metadata |-> <<>>]

\* res.status(status).json({ success, ... }) of a handler that made the calls `pins` to Pinata
Answer(handler, status, success, pins, body) ==
    [handler |-> handler, status |-> status, success |-> success, pins |-> pins, body |-> body]

\* the limiter's handler: res.status(429).json({ success: false, error, retryAfter })
TooManyRequests == Answer("none", 429, "false", <<>>, NoBody)

\* JSON.parse on the texts the model uses: null and objects of string members,
\* without white space or escapes; anything else that is no JSON throws SyntaxError
SyntaxError == [ok |-> FALSE, type |-> "none", value |-> <<>>]

closingQuote(text, i) ==
    LET ends == {j \in (i + 1)..Len(text) : text[j] = DoubleQuote} IN
    IF ends = {} THEN 0 ELSE CHOOSE j \in ends : \A k \in ends : j <= k

RECURSIVE parseMembers(_, _, _)
parseMembers(text, i, object) ==
    LET keyEnd == IF i <= Len(text) /\ text[i] = DoubleQuote THEN closingQuote(text, i) ELSE 0
        valueAt == keyEnd + 2
        valueEnd == IF /\ keyEnd > 0
                       /\ valueAt <= Len(text)
                       /\ text[keyEnd + 1] = Colon
                       /\ text[valueAt] = DoubleQuote
                    THEN closingQuote(text, valueAt) ELSE 0
        key == SubSeq(text, i + 1, keyEnd - 1)
        value == SubSeq(text, valueAt + 1, valueEnd - 1)
        withMember == [k \in DOMAIN object \cup {key} |-> IF k = key THEN value ELSE object[k]]
    IN  IF valueEnd = 0 \/ valueEnd = Len(text) THEN SyntaxError
        ELSE IF text[valueEnd + 1] = RightBrace
        THEN IF valueEnd + 1 = Len(text)
             THEN [ok |-> TRUE, type |-> "object", value |-> withMember]
             ELSE SyntaxError
        ELSE IF text[valueEnd + 1] = Comma THEN parseMembers(text, valueEnd + 2, withMember)
        ELSE SyntaxError

JSONparse(text) ==
    IF text = <<110, 117, 108, 108>> THEN [ok |-> TRUE, type |-> "null", value |-> <<>>]
    ELSE IF text = <<LeftBrace, RightBrace>> THEN [ok |-> TRUE, type |-> "object", value |-> <<>>]
    ELSE IF text # <<>> /\ text[1] = LeftBrace THEN parseMembers(text, 2, <<>>)
    ELSE SyntaxError

\* metadata.name || fallback
nameOr(metadata, fallback) ==
    IF KeyName \in DOMAIN metadata /\ metadata[KeyName] # <<>> THEN metadata[KeyName]
    ELSE fallback

\* { image: imageUrl, ...metadata }: a member of the request's metadata wins
completeMetadata_own(metadata, imageUrl) ==
    [k \in DOMAIN metadata \cup {KeyImage} |->
        IF k \in DOMAIN metadata THEN metadata[k] ELSE imageUrl]

\* { ...metadata, image: imageUrl }
completeMetadata(metadata, imageUrl) ==
    [k \in DOMAIN metadata \cup {KeyImage} |-> IF k = KeyImage THEN imageUrl ELSE metadata[k]]

\* a call of Pinata's pinFileToIPFS or pinJSONToIPFS and whether it answered ok
Pin(api, content, name, response) ==
    [ api |-> api, content |-> content, name |-> name, ok |-> response.ok,
      IpfsHash |-> response.IpfsHash ]

\* GET /health
health == Answer("/health", 200, "none", <<>>, NoBody)

\* GET /test
test == Answer("/test", 200, "true", <<>>, NoBody)

\* app.use('*', ...): no route matched
notFound == Answer("*", 404, "false", <<>>, NoBody)

\* POST /api/upload-file
uploadFile(req, response) ==
    IF req.files.file = <<>> THEN Answer("/api/upload-file", 400, "false", <<>>, NoBody)
    ELSE LET file == req.files.file[1]
             pin == Pin("pinFileToIPFS", file.buffer, file.originalname, response)
         IN  IF ~response.ok THEN Answer("/api/upload-file", 500, "false", <<pin>>, NoBody)
             ELSE Answer("/api/upload-file", 200, "true", <<pin>>,
                         [NoBody EXCEPT !.hash = response.IpfsHash,
                                        !.url = Gateway \o response.IpfsHash])

\* aura-nft-metadata.json
MetadataJson ==
    << 97, 117, 114, 97, 45, 110, 102, 116, 45, 109, 101, 116, 97, 100, 97, 116, 97, 46,
       106, 115, 111, 110 >>

\* POST /api/upload-metadata: req.body is what express.json() parsed
uploadMetadata(req, response) ==
    IF "metadata" \notin DOMAIN req.body
    THEN Answer("/api/upload-metadata", 400, "false", <<>>, NoBody)
    ELSE LET pin == Pin("pinJSONToIPFS", req.body.metadata, MetadataJson, response)
         IN  IF ~response.ok THEN Answer("/api/upload-metadata", 500, "false", <<pin>>, NoBody)
             ELSE Answer("/api/upload-metadata", 200, "true", <<pin>>,
                         [NoBody EXCEPT !.hash = response.IpfsHash,
                                        !.url = Gateway \o response.IpfsHash])

AuraNftName == << 97, 117, 114, 97, 45, 110, 102, 116 >>                                \* aura-nft
MetadataSuffix == << 45, 109, 101, 116, 97, 100, 97, 116, 97, 46, 106, 115, 111, 110 >>  \* -metadata.json

\* String(n) of a non-negative integer
RECURSIVE decimal(_)
decimal(n) == IF n < 10 THEN <<48 + n>> ELSE Append(decimal(n \div 10), 48 + (n % 10))

\* the file name of the image: `aura-${Date.now()}.png`, time counted from the start
imageName(time) == <<97, 117, 114, 97, 45>> \o decimal(time) \o <<46, 112, 110, 103>>

\* POST /api/upload-nft: req.files is what multer parsed, req.body.metadata a text
uploadNft(req, imageResponse, metadataResponse, time) ==
    LET metadataString == IF "metadata" \in DOMAIN req.body THEN req.body.metadata ELSE <<>>
        parsed == JSONparse(metadataString)
        metadata == parsed.value
        imageFile == req.files.image[1]
        imagePin == Pin("pinFileToIPFS", imageFile.buffer, imageName(time), imageResponse)
        imageUrl == Gateway \o imageResponse.IpfsHash
        metadataPin == Pin("pinJSONToIPFS", completeMetadata(metadata, imageUrl),
                           nameOr(metadata, AuraNftName) \o MetadataSuffix, metadataResponse)
        metadataUrl == Gateway \o metadataResponse.IpfsHash
    IN  IF req.files.image = <<>> THEN Answer("/api/upload-nft", 400, "false", <<>>, NoBody)
        ELSE IF metadataString = <<>> THEN Answer("/api/upload-nft", 400, "false", <<>>, NoBody)
        ELSE IF ~parsed.ok THEN Answer("/api/upload-nft", 400, "false", <<>>, NoBody)
        \* metadata.name of null throws TypeError, caught by the handler
        ELSE IF parsed.type = "null" THEN Answer("/api/upload-nft", 500, "false", <<>>, NoBody)
        ELSE IF ~imageResponse.ok
        THEN Answer("/api/upload-nft", 500, "false", <<imagePin>>, NoBody)
        ELSE IF ~metadataResponse.ok
        THEN Answer("/api/upload-nft", 500, "false", <<imagePin, metadataPin>>, NoBody)
        ELSE Answer("/api/upload-nft", 200, "true", <<imagePin, metadataPin>>,
                    [ hash |-> metadataResponse.IpfsHash, url |-> metadataUrl,
                      imageHash |-> imageResponse.IpfsHash, imageUrl |-> imageUrl,
                      metadata |-> completeMetadata(metadata, imageUrl) ])

\* the handler of the route the path matches
handle(path, req, imageResponse, metadataResponse, time) ==
    CASE path = "/health"              -> health
      [] path = "/test"                -> test
      [] path = "/api/upload-file"     -> uploadFile(req, imageResponse)
      [] path = "/api/upload-metadata" -> uploadMetadata(req, metadataResponse)
      [] path = "/api/upload-nft"      -> uploadNft(req, imageResponse, metadataResponse, time)
      [] OTHER                         -> notFound

\* the documented tiers (backend/README.md, Rate Limiting) and the tier of a path
tierOf(path) ==
    CASE path = "/health"              -> healthLimiter
      [] path = "/api/upload-file"     -> uploadLimiter
      [] path = "/api/upload-metadata" -> uploadLimiter
      [] path = "/api/upload-nft"      -> nftLimiter
      [] OTHER                         -> generalLimiter

NoWindow == [start |-> 0, n |-> 0]

\* the requests of the client in the window of a tier, this one included
nthInWindow(windows, tier, time) ==
    LET window == windows[tier.name] IN
    IF window.n > 0 /\ time < window.start + tier.windowMs
    THEN [window EXCEPT !.n = @ + 1]
    ELSE [start |-> time, n |-> 1]

NoResponse ==
    [ path |-> "none", req |-> <<>>, n |-> 0, limitedBy |-> "none", handler |-> "none",
      status |-> 0, success |-> "none", pins |-> <<>>, body |-> NoBody ]

\* the backend has started, the client has sent nothing
ServerIdle ==
    /\ limiterHits = [name \in {limiter.name : limiter \in Limiters} |-> NoHits]
    /\ serverTime = 0
    /\ lastResponse = NoResponse
    /\ traffic = [name \in {limiter.name : limiter \in Limiters} |-> NoWindow]
    /\ client = [path |-> "none", paths |-> 0, waits |-> 0]

\* one request of the client, from its arrival to the answer; imageResponse and
\* metadataResponse are what Pinata answers if the handler calls it
Request(path, req, imageResponse, metadataResponse) ==
    LET passed == passLimiters(limiterHits, limitersOf(path), serverTime)
        tier == tierOf(path)
        window == nthInWindow(traffic, tier, serverTime)
        answer == IF passed.limitedBy # "none" THEN TooManyRequests
                  ELSE handle(path, req, imageResponse, metadataResponse, serverTime)
    IN  /\ path = client.path \/ client.paths < MaxPaths
        /\ window.n <= tier.max + MaxExcess
        /\ limiterHits' = passed.store
        /\ traffic' = [traffic EXCEPT ![tier.name] = window]
        /\ lastResponse' = [ path |-> path, req |-> req, n |-> window.n,
                             limitedBy |-> passed.limitedBy,
                             handler |-> answer.handler, status |-> answer.status,
                             success |-> answer.success, pins |-> answer.pins,
                             body |-> answer.body ]
        /\ client' = IF path = client.path THEN client
                     ELSE [client EXCEPT !.path = path, !.paths = @ + 1]
        /\ UNCHANGED <<serverTime, pureVars, genVars, chainVars, mintVars>>

\* the client waits for the length of a limiter's window
Wait(limiter) ==
    /\ client.waits < MaxWaits
    /\ serverTime' = serverTime + limiter.windowMs
    /\ limiterHits' = expire(limiterHits, serverTime')
    /\ traffic' = [name \in DOMAIN traffic |->
                     IF \E tier \in Limiters :
                           /\ tier.name = name
                           /\ traffic[name].n > 0
                           /\ serverTime' < traffic[name].start + tier.windowMs
                     THEN traffic[name] ELSE NoWindow]
    /\ client' = [client EXCEPT !.waits = @ + 1]
    /\ UNCHANGED <<lastResponse, pureVars, genVars, chainVars, mintVars>>

-----------------------------------------------------------------------------
(* Initial states *)

\* initialState of AppProvider; no AuraPage rendered yet
GenIdle ==
    /\ moodSeed = Empty
    /\ transactionCount = 0
    /\ imageData = <<>>
    /\ instance = 0
    /\ mounts = 0
    /\ p5InstanceRef = 0
    /\ isGeneratingRef = FALSE
    /\ hasGeneratedRef = FALSE
    /\ cleanup = FALSE
    /\ loads = <<>>
    /\ sketches = <<>>
    /\ timers = {}
    /\ delivered = <<>>
    /\ clock = 0

PureIdle == calls = <<>> /\ vcalls = <<>> /\ pcalls = <<>>

Accounts == {"0xa11ce", "0xb0b"}

NoTx ==
    [ fn |-> "none", sender |-> "none", mood_seed |-> <<>>, transaction_count |-> 0,
      token_name |-> <<>>, uri |-> <<>>, status |-> "none", code |-> 0, origin |-> "none",
      time |-> 0, dirty |-> FALSE, before |-> <<>> ]

\* the module is published, nobody has a collection
ChainIdle ==
    /\ AuraCollection = [a \in Accounts |-> <<>>]
    /\ AuraNFT = <<>>
    /\ events = <<>>
    /\ now = 0
    /\ lastTx = NoTx

\* a history keeps the last `depth` calls
Remember(history, call, depth) ==
    LET all == Append(history, call) IN
    IF Len(all) <= depth THEN all ELSE SubSeq(all, Len(all) - depth + 1, Len(all))

-----------------------------------------------------------------------------
(* Specification SpecRarity: calculate_rarity applied to bounded inputs *)

TxCounts ==
    {0, 10, 49, 50, 51, 99, 100, 101, 499, 500, 501, 999, 1000, 1001, 4999, 5000, 5001,
     6000, 10000000}

RaritySeeds ==
    {Happy, Journey, Ok, CalmWaves, Pattern(1, 1), Pattern(5, 1), Pattern(6, 6), Pattern(10, 10),
     Pattern(11, 3), Pattern(20, 20), Pattern(21, 2), Pattern(MaxSeedLen, 26)}

CalcRarity(tx, seed, depth) ==
    /\ calls' = Remember(calls, [tx_count   |-> tx,
                                 mood_seed  |-> Utf8(seed),
                                 base       |-> base_rarity(tx),
                                 score      |-> calculate_rarity(tx, Utf8(seed))], depth)
    /\ UNCHANGED <<vcalls, pcalls, genVars, otherVars>>

\* initialState of AppProvider, no wallet connected, mintNFT never called
MintIdle ==
    /\ account = "none"
    /\ loading = FALSE
    /\ lastTransactionHash = 0
    /\ runs = <<>>
    /\ submitted = <<>>

Init == PureIdle /\ GenIdle /\ ChainIdle /\ MintIdle /\ ServerIdle

NextRarity == \E tx \in TxCounts, seed \in RaritySeeds : CalcRarity(tx, seed, 1)

SpecRarity == Init /\ [][NextRarity]_vars

-----------------------------------------------------------------------------
(* Specification SpecValidate: validateMoodSeed applied to bounded inputs *)

Leads  == {<<>>, <<9>>}
Trails == {<<>>, <<32, 10>>}
Cores  ==
    {<<>>, <<Lt>>, <<SingleQuote>>, <<DoubleQuote, Gt>>, <<7>>, <<Del>>, <<133>>, <<127754>>,
     DataScheme, <<111, 110, 120, 32, 61>>, <<32, 9, 32>>}
Fills  == {0, 1, 2, MaxSeedLen - 2, MaxSeedLen - 1, MaxSeedLen, MaxSeedLen + 1}

ValidateSeeds ==
    {lead \o Pattern(n, 5) \o core \o trail :
        lead \in Leads, n \in Fills, core \in Cores, trail \in Trails}

ValidateSeed(seed) ==
    /\ vcalls' = Remember(vcalls, [seed |-> seed, result |-> validateMoodSeed(Utf16(seed))], 1)
    /\ UNCHANGED <<calls, pcalls, genVars, otherVars>>

NextValidate == \E seed \in ValidateSeeds : ValidateSeed(seed)

SpecValidate == Init /\ [][NextValidate]_vars

-----------------------------------------------------------------------------
(* Specification SpecPalette: getMoodPalette applied to bounded inputs *)

Words ==
    {MoodHappy, MoodCalm, MoodEnergetic, MoodPeaceful, MoodMysterious, MoodPassionate,
     MoodDefault, Xyz123, Ok,
     <<72, 65, 80, 80, 89>>,            \* HAPPY
     <<67, 97, 108, 109>>,              \* Calm
     <<69, 110, 101, 114, 103, 121>>,   \* Energy
     <<109, 121, 115, 116>>,            \* myst
     <<80, 65, 83, 83>>,                \* PASS
     <<104, 97, 112>>,                  \* hap
     <<112, 101, 97>>}                  \* pea

PaletteSeeds == Words \cup {a \o <<32>> \o b : a \in Words, b \in Words}

GetPalette(seed) ==
    /\ pcalls' = Remember(pcalls, [seed |-> seed, palette |-> getMoodPalette(Utf16(seed))], 1)
    /\ UNCHANGED <<calls, vcalls, genVars, otherVars>>

NextPalette == \E seed \in PaletteSeeds : GetPalette(seed)

SpecPalette == Init /\ [][NextPalette]_vars

-----------------------------------------------------------------------------
(* Specification SpecSetup: one generation from each of many inputs *)

Bold       == <<60, 98, 62>>                                            \* <b>
Bell       == <<111, 107, 7, 111, 107>>                                 \* ok, U+0007, ok

SetupSeeds == {Empty, Happy, Ok, Xyz123, Journey, CalmWaves, Bold, Bell,
               Pattern(MaxSeedLen + 1, 3)}

SetupCounts == (0..46) \cup {59, 60, 61, 1000, 100000, 10000000}

NextSetup ==
    \/ \E seed \in SetupSeeds : SetMoodSeed(seed)
    \/ \E count \in SetupCounts : SetTransactionCount(count, 1)
    \/ Mount(1, 1)
    \/ P5Loaded
    \/ \E index \in timers : CaptureTimer(index)
    \/ ValidateSeed(moodSeed)

SpecSetup == Init /\ [][NextSetup]_vars

-----------------------------------------------------------------------------
(* Specification SpecGen: generations that follow and overlap each other *)

GenSeeds == {Happy}

GenCounts == {3, 20}

NextGen ==
    \/ \E seed \in GenSeeds : SetMoodSeed(seed)
    \/ \E count \in GenCounts : SetTransactionCount(count, MaxSketches)
    \/ Mount(MaxMounts, MaxSketches)
    \/ Unmount
    \/ P5Loaded
    \/ P5LoadFailed
    \/ \E index \in timers : CaptureTimer(index)
    \/ Tick

SpecGen == Init /\ [][NextGen]_vars

-----------------------------------------------------------------------------
(* Specification SpecRuns: repeated generations and repeated rarity calls *)

RunCounts == {3, 6000}

RunSeeds == {Journey}

NextRuns ==
    \/ \E seed \in RunSeeds : SetMoodSeed(seed)
    \/ \E count \in RunCounts : SetTransactionCount(count, MaxSketches)
    \/ Mount(MaxMounts, MaxSketches)
    \/ Unmount
    \/ P5Loaded
    \/ \E index \in timers : CaptureTimer(index)
    \/ \E tx \in RunCounts, seed \in RunSeeds : CalcRarity(tx, seed, 2)

SpecRuns == Init /\ [][NextRuns]_vars

-----------------------------------------------------------------------------
(* Specification SpecChain: transactions sent to aura_weaver::aura_nft *)

NameAura == <<65, 117, 114, 97>>                                         \* Aura
IpfsUri  == <<105, 112, 102, 115, 58, 47, 47, 81, 109>>                  \* ipfs://Qm
Quoted   == <<105, 116, 39, 115>>                                        \* it's

Emoji(n) == [i \in 1..n |-> 127754]                                       \* 4 bytes each

MintArgs ==
    { [seed |-> Journey, count |-> 6000, name |-> NameAura, uri |-> IpfsUri],
      [seed |-> Pattern(MAX_MOOD_SEED_LENGTH - 5, 26) \o <<Del>> \o Emoji(1), count |-> 10,
       name |-> Pattern(MAX_TOKEN_NAME_LENGTH, 7), uri |-> <<47>>],
      [seed |-> Empty, count |-> 10, name |-> NameAura, uri |-> IpfsUri],
      [seed |-> Pattern(MAX_MOOD_SEED_LENGTH + 1, 26), count |-> 10, name |-> NameAura,
       uri |-> IpfsUri],
      [seed |-> Pattern(MAX_MOOD_SEED_LENGTH - 3, 26) \o Emoji(1), count |-> 10,
       name |-> NameAura, uri |-> IpfsUri],
      [seed |-> <<97, Lt>>, count |-> 10, name |-> NameAura, uri |-> IpfsUri],
      [seed |-> <<Gt, 97>>, count |-> 10, name |-> NameAura, uri |-> IpfsUri],
      [seed |-> Quoted, count |-> 10, name |-> NameAura, uri |-> IpfsUri],
      [seed |-> <<DoubleQuote>>, count |-> 10, name |-> NameAura, uri |-> IpfsUri],
      [seed |-> <<97, 31>>, count |-> 10, name |-> NameAura, uri |-> IpfsUri],
      [seed |-> Happy, count |-> 10, name |-> Empty, uri |-> IpfsUri],
      [seed |-> Happy, count |-> 10, name |-> Pattern(MAX_TOKEN_NAME_LENGTH + 1, 7),
       uri |-> IpfsUri],
      [seed |-> Happy, count |-> 10, name |-> NameAura, uri |-> Empty],
      [seed |-> Bold, count |-> 10, name |-> Empty, uri |-> Empty] }

\* the VM commits the world of a transaction that executed and drops that of one that aborted
Commit(fn, sender, mood_seed, transaction_count, token_name, uri, result) ==
    /\ IF result.status = "executed"
       THEN /\ AuraCollection' = result.world.AuraCollection
            /\ AuraNFT' = result.world.AuraNFT
            /\ events' = result.world.events
       ELSE UNCHANGED <<AuraCollection, AuraNFT, events>>
    /\ lastTx' = [ fn |-> fn, sender |-> sender, mood_seed |-> mood_seed,
                   transaction_count |-> transaction_count, token_name |-> token_name,
                   uri |-> uri, status |-> result.status, code |-> result.code,
                   origin |-> result.origin, time |-> now,
                   dirty |-> (result.world # World),
                   before |-> World ]

CreateCollection(creator, frameworkOk) ==
    /\ Commit("create_collection", creator, <<>>, 0, <<>>, <<>>,
              create_collection(World, creator, now, frameworkOk))
    /\ UNCHANGED <<now, pureVars, genVars, mintVars, serverVars>>

MintAura(user, args, frameworkOk) ==
    /\ Len(AuraNFT) < MaxMinted
    /\ Commit("mint_aura", user, Utf8(args.seed), args.count, Utf8(args.name), Utf8(args.uri),
              mint_aura(World, user, Utf8(args.seed), args.count, Utf8(args.name),
                        Utf8(args.uri), now, frameworkOk))
    /\ UNCHANGED <<now, pureVars, genVars, mintVars, serverVars>>

\* a block with a later timestamp
NewBlock ==
    /\ now < MaxTime
    /\ now' = now + 1
    /\ UNCHANGED <<AuraCollection, AuraNFT, events, lastTx, pureVars, genVars, mintVars, serverVars>>

NextChain ==
    \/ \E creator \in Accounts, frameworkOk \in BOOLEAN : CreateCollection(creator, frameworkOk)
    \/ \E user \in Accounts, args \in MintArgs, frameworkOk \in BOOLEAN :
          MintAura(user, args, frameworkOk)
    \/ NewBlock

SpecChain == Init /\ [][NextChain]_vars

-----------------------------------------------------------------------------
(* frontend/src/components/AuraPage.tsx: mintNFT.  A call of mintNFT is a run: it    *)
(* keeps the state and the account of the render it was started from, and rests at   *)
(* its awaits.                                                                       *)

\* validateWalletConnection(account?.address?.toString())
validateWalletConnection(accountAddress) == accountAddress # "none"

\* validateTransactionCount with its default options: a number from 0 to 100000
validateTransactionCount(count) == count >= 0 /\ count <= 100000

\* validateImageData: a non-empty string that new URL() accepts, as a data URL is
validateImageData(data) == data # <<>>

\* text.replace(/[^a-zA-Z0-9]/g, ''), on UTF-16 code units
stripNonAlnum(units) ==
    SelectSeq(units, LAMBDA u : (u >= 48 /\ u <= 57) \/ (u >= 65 /\ u <= 90) \/ (u >= 97 /\ u <= 122))

\* Date.now() in decimal: the 13 digits of a millisecond count, the last one following the clock
DateNow(time) == <<49, 55, 54, 50, 49, 55, 50, 56, 48, 48, 48, 48>> \o <<48 + (time % 10)>>

\* `Aura-${state.moodSeed.replace(/[^a-zA-Z0-9]/g, '')}-${Date.now()}`
tokenNameOf(seed, time) ==
    <<65, 117, 114, 97, 45>> \o stripNonAlnum(Utf16(seed)) \o <<45>> \o DateNow(time)

\* https://demo.aura-aptos.com/nft/
DemoUriPrefix ==
    << 104, 116, 116, 112, 115, 58, 47, 47, 100, 101, 109, 111, 46, 97, 117, 114, 97, 45,
       97, 112, 116, 111, 115, 46, 99, 111, 109, 47, 110, 102, 116, 47 >>

\* `https://demo.aura-aptos.com/nft/${tokenName.replace(/[^a-zA-Z0-9]/g, '')}`
demoUri(tokenName) == DemoUriPrefix \o stripNonAlnum(tokenName)

\* the url of pinned metadata: https://gateway.pinata.cloud/ipfs/QmMeta
MetadataUrl ==
    << 104, 116, 116, 112, 115, 58, 47, 47, 103, 97, 116, 101, 119, 97, 121, 46, 112, 105,
       110, 97, 116, 97, 46, 99, 108, 111, 117, 100, 47, 105, 112, 102, 115, 47, 81, 109,
       77, 101, 116, 97 >>

\* what api.uploadNFT resolves to: the backend's answer, or success: false for any failure
UploadResults == { [success |-> TRUE, url |-> MetadataUrl], [success |-> FALSE, url |-> <<>>] }

\* the button "Mint as NFT": rendered with an image, disabled while state.loading
ClickMint(maxRuns) ==
    /\ instance # 0
    /\ imageData # <<>>
    /\ ~loading
    /\ Len(runs) < maxRuns
    /\ runs' = Append(runs,
          [ pc |-> "network", account |-> account, moodSeed |-> moodSeed,
            transactionCount |-> transactionCount, imageData |-> imageData,
            networkCheck |-> "pending", started |-> 0, storageAvailable |-> FALSE,
            upload |-> "none",
            tokenName |-> <<>>, uri |-> <<>>,
            hash |-> 0, status |-> "none", shown |-> "none" ])
    /\ UNCHANGED <<account, loading, lastTransactionHash, submitted, pureVars, genVars, chainVars, serverVars>>

\* mintNFT with the mood seed validated before the wallet connection
firstFailure_seedFirst(run, isCompatible) ==
    IF ~isCompatible THEN "networkMismatch"
    ELSE IF ~validateMoodSeed(Utf16(run.moodSeed)).isValid THEN "moodSeed"
    ELSE IF ~validateWalletConnection(run.account) THEN "walletConnection"
    ELSE IF ~validateTransactionCount(run.transactionCount) THEN "transactionCount"
    ELSE IF ~validateImageData(run.imageData) THEN "imageData"
    ELSE "none"

\* the first return of mintNFT, if any: the network check and the four validations in order
firstFailure(run, isCompatible) ==
    IF ~isCompatible THEN "networkMismatch"
    ELSE IF ~validateWalletConnection(run.account) THEN "walletConnection"
    ELSE IF ~validateMoodSeed(Utf16(run.moodSeed)).isValid THEN "moodSeed"
    ELSE IF ~validateTransactionCount(run.transactionCount) THEN "transactionCount"
    ELSE IF ~validateImageData(run.imageData) THEN "imageData"
    ELSE "none"

\* the imports and checkNetworkCompatibility() resolve; the validations follow at once
NetworkChecked(i, isCompatible) ==
    /\ i \in 1..Len(runs)
    /\ runs[i].pc = "network"
    /\ LET failure == firstFailure(runs[i], isCompatible)
           check == IF isCompatible THEN "compatible" ELSE "mismatch" IN
       runs' = [runs EXCEPT ![i] =
                   IF failure # "none"
                   THEN [@ EXCEPT !.pc = "done", !.networkCheck = check, !.shown = failure]
                   ELSE [@ EXCEPT !.pc = "storage", !.networkCheck = check]]
    /\ UNCHANGED <<account, loading, lastTransactionHash, submitted, pureVars, genVars, chainVars, serverVars>>

\* isStorageAvailable() resolves; setLoading(true), setTransactionHash(''), then the token
\* name and, without storage, the placeholder URI; started numbers the runs in the order
\* in which they got here
StorageChecked(i, storageAvailable) ==
    /\ i \in 1..Len(runs)
    /\ runs[i].pc = "storage"
    /\ loading' = TRUE
    /\ lastTransactionHash' = 0
    /\ LET name == tokenNameOf(runs[i].moodSeed, clock)
           nth  == Cardinality({j \in 1..Len(runs) : runs[j].started # 0}) + 1 IN
       runs' = [runs EXCEPT ![i] =
                   IF storageAvailable
                   THEN [@ EXCEPT !.pc = "upload", !.started = nth, !.storageAvailable = TRUE,
                                  !.tokenName = name]
                   ELSE [@ EXCEPT !.pc = "sign", !.started = nth, !.tokenName = name,
                                  !.uri = demoUri(name)]]
    /\ UNCHANGED <<account, submitted, pureVars, genVars, chainVars, serverVars>>

\* mintNFT without its finally block: a failed upload leaves loading set
Uploaded_noFinally(i, result) ==
    /\ i \in 1..Len(runs)
    /\ runs[i].pc = "upload"
    /\ runs' = [runs EXCEPT ![i] = IF result.success
                                   THEN [@ EXCEPT !.pc = "sign", !.upload = "pinned",
                                                  !.uri = result.url]
                                   ELSE [@ EXCEPT !.pc = "done", !.upload = "failed",
                                                  !.shown = "error"]]
    /\ UNCHANGED <<account, loading, lastTransactionHash, submitted, pureVars, genVars, chainVars, serverVars>>

\* api.uploadNFT(...) resolves: the URI is the url of the result, or the run throws, and
\* catch shows the error and finally calls setLoading(false)
Uploaded(i, result) ==
    /\ i \in 1..Len(runs)
    /\ runs[i].pc = "upload"
    /\ IF result.success
       THEN /\ runs' = [runs EXCEPT ![i] = [@ EXCEPT !.pc = "sign", !.upload = "pinned",
                                                     !.uri = result.url]]
            /\ UNCHANGED loading
       ELSE /\ runs' = [runs EXCEPT ![i] = [@ EXCEPT !.pc = "done", !.upload = "failed",
                                                     !.shown = "error"]]
            /\ loading' = FALSE
    /\ UNCHANGED <<account, lastTransactionHash, submitted, pureVars, genVars, chainVars, serverVars>>

\* functionArguments: [state.moodSeed, state.transactionCount, tokenName, uri]
mintTransaction(sender, run) ==
    [ sender |-> sender, function |-> "aura_nft::mint_aura", mood_seed |-> Utf8(run.moodSeed),
      transaction_count |-> run.transactionCount, token_name |-> Utf8(run.tokenName),
      uri |-> Utf8(run.uri) ]

\* signAndSubmitTransaction(...) resolves with the hash of the transaction, which the
\* chain runs, or rejects because the user declined
Signed(i, approved, frameworkOk) ==
    /\ i \in 1..Len(runs)
    /\ runs[i].pc = "sign"
    /\ IF approved /\ account # "none"
       THEN LET tx == mintTransaction(account, runs[i])
                result == mint_aura(World, tx.sender, tx.mood_seed, tx.transaction_count,
                                    tx.token_name, tx.uri, now, frameworkOk)
            IN  /\ submitted' = Append(submitted, tx)
                /\ Commit("mint_aura", tx.sender, tx.mood_seed, tx.transaction_count,
                          tx.token_name, tx.uri, result)
                /\ runs' = [runs EXCEPT ![i] = [@ EXCEPT !.pc = "wait",
                                                         !.hash = Len(submitted) + 1,
                                                         !.status = result.status]]
                /\ UNCHANGED loading
       ELSE /\ runs' = [runs EXCEPT ![i] = [@ EXCEPT !.pc = "done", !.shown = "error"]]
            /\ loading' = FALSE
            /\ UNCHANGED <<submitted, chainVars>>
    /\ UNCHANGED <<account, lastTransactionHash, now, pureVars, genVars, serverVars>>

\* aptos.waitForTransaction(...) resolves for a transaction that executed:
\* setTransactionHash(response.hash) and the success alert; it rejects for one that
\* aborted; either way finally calls setLoading(false)
Confirmed(i) ==
    /\ i \in 1..Len(runs)
    /\ runs[i].pc = "wait"
    /\ IF runs[i].status = "executed"
       THEN /\ lastTransactionHash' = runs[i].hash
            /\ runs' = [runs EXCEPT ![i] = [@ EXCEPT !.pc = "done", !.shown = "success"]]
       ELSE /\ UNCHANGED lastTransactionHash
            /\ runs' = [runs EXCEPT ![i] = [@ EXCEPT !.pc = "done", !.shown = "error"]]
    /\ loading' = FALSE
    /\ UNCHANGED <<account, submitted, pureVars, genVars, chainVars, serverVars>>

\* the wallet adapter connects an account
ConnectWallet(address) ==
    /\ account = "none"
    /\ account' = address
    /\ UNCHANGED <<loading, lastTransactionHash, runs, submitted, pureVars, genVars, chainVars, serverVars>>

-----------------------------------------------------------------------------
(* Specification SpecMint: mintNFT from the image of one generation *)

MintSeeds == {Happy, Bold}

NextMint ==
    \/ \E seed \in MintSeeds : SetMoodSeed(seed)
    \/ Mount(1, 1)
    \/ P5Loaded
    \/ \E index \in timers : CaptureTimer(index)
    \/ ConnectWallet("0xa11ce")
    \/ ClickMint(MaxRuns)
    \/ \E i \in 1..Len(runs), isCompatible \in BOOLEAN : NetworkChecked(i, isCompatible)
    \/ \E i \in 1..Len(runs), storageAvailable \in BOOLEAN : StorageChecked(i, storageAvailable)
    \/ \E i \in 1..Len(runs), result \in UploadResults : Uploaded(i, result)
    \/ \E i \in 1..Len(runs), approved \in BOOLEAN, frameworkOk \in BOOLEAN :
          Signed(i, approved, frameworkOk)
    \/ \E i \in 1..Len(runs) : Confirmed(i)

SpecMint == Init /\ [][NextMint]_vars

-----------------------------------------------------------------------------
(* Specification SpecSeeds: one mintNFT for each of several mood seeds *)

Tab == 9
Space == 32

\* seeds validateMoodSeed accepts: short, with 31 and with 32 letters, with a tab or a
\* space after the text, and of emoji only
FlowSeeds ==
    { Happy, Pattern(31, 10), Pattern(32, 10), Happy \o <<Tab>>,
      Pattern(maxLength, 10) \o <<Space>>, Emoji(26) }

NextSeeds ==
    \/ \E seed \in FlowSeeds : SetMoodSeed(seed)
    \/ Mount(1, 1)
    \/ P5Loaded
    \/ \E index \in timers : CaptureTimer(index)
    \/ ConnectWallet("0xa11ce")
    \/ ClickMint(1)
    \/ \E i \in 1..Len(runs), isCompatible \in BOOLEAN : NetworkChecked(i, isCompatible)
    \/ \E i \in 1..Len(runs), storageAvailable \in BOOLEAN : StorageChecked(i, storageAvailable)
    \/ \E i \in 1..Len(runs), result \in UploadResults : Uploaded(i, result)
    \/ \E i \in 1..Len(runs), approved \in BOOLEAN, frameworkOk \in BOOLEAN :
          Signed(i, approved, frameworkOk)
    \/ \E i \in 1..Len(runs) : Confirmed(i)

SpecSeeds == Init /\ [][NextSeeds]_vars

\* every awaited call of a run that set loading returns or throws: api.uploadNFT,
\* signAndSubmitTransaction and waitForTransaction
AwaitsReturn ==
    \A i \in 1..MaxLiveRuns :
        /\ WF_vars(\E result \in UploadResults : Uploaded(i, result))
        /\ WF_vars(\E approved \in BOOLEAN, frameworkOk \in BOOLEAN : Signed(i, approved, frameworkOk))
        /\ WF_vars(Confirmed(i))

NextMintLive ==
    \/ \E seed \in FlowSeeds : SetMoodSeed(seed)
    \/ Mount(1, 1)
    \/ P5Loaded
    \/ \E index \in timers : CaptureTimer(index)
    \/ ConnectWallet("0xa11ce")
    \/ ClickMint(MaxLiveRuns)
    \/ \E i \in 1..Len(runs), isCompatible \in BOOLEAN : NetworkChecked(i, isCompatible)
    \/ \E i \in 1..Len(runs), storageAvailable \in BOOLEAN : StorageChecked(i, storageAvailable)
    \/ \E i \in 1..Len(runs), result \in UploadResults : Uploaded(i, result)
    \/ \E i \in 1..Len(runs), approved \in BOOLEAN, frameworkOk \in BOOLEAN :
          Signed(i, approved, frameworkOk)
    \/ \E i \in 1..Len(runs) : Confirmed(i)

SpecMintLive == Init /\ [][NextMintLive]_vars /\ AwaitsReturn

-----------------------------------------------------------------------------------------------------------------------------------------------------
(* Specification SpecPage: the wallet page and the aura page around one mint.  The
   seed is typed on the wallet page; fetchUserData of the wallet page may resolve,
   and call setTransactionCount, after the aura page was opened *)

PageSeeds == {Happy, Bold}

PageCounts == {3}

NextPage ==
    \/ \E seed \in PageSeeds : SetMoodSeed(seed)
    \/ \E count \in PageCounts : SetTransactionCount(count, MaxSketches)
    \/ Mount(MaxMounts, MaxSketches)
    \/ Unmount
    \/ P5Loaded
    \/ \E index \in timers : CaptureTimer(index)
    \/ ConnectWallet("0xa11ce")
    \/ ClickMint(1)
    \/ \E i \in 1..Len(runs), isCompatible \in BOOLEAN : NetworkChecked(i, isCompatible)
    \/ \E i \in 1..Len(runs), storageAvailable \in BOOLEAN : StorageChecked(i, storageAvailable)
    \/ \E i \in 1..Len(runs), result \in UploadResults : Uploaded(i, result)
    \/ \E i \in 1..Len(runs), approved \in BOOLEAN, frameworkOk \in BOOLEAN :
          Signed(i, approved, frameworkOk)
    \/ \E i \in 1..Len(runs) : Confirmed(i)

SpecPage == Init /\ [][NextPage]_vars

-----
(* Specification SpecLimits: one client requests the paths of the backend *)

\* a PNG of three bytes and a file without bytes
PngFile   == [originalname |-> <<97, 46, 112, 110, 103>>, buffer |-> <<80, 78, 71>>]
EmptyFile == [originalname |-> <<97, 46, 112, 110, 103>>, buffer |-> <<>>]

QmImage == << 81, 109, 73, 109, 97, 103, 101 >>     \* QmImage
QmMeta  == << 81, 109, 77, 101, 116, 97 >>          \* QmMeta

PinataOk(hash) == [ok |-> TRUE, IpfsHash |-> hash]
PinataDown == [ok |-> FALSE, IpfsHash |-> <<>>]

\* {"name":"Aura"}
NamedMetadata ==
    << 123, 34, 110, 97, 109, 101, 34, 58, 34, 65, 117, 114, 97, 34, 125 >>

\* a well-formed request to the path
wellFormed(path) ==
    CASE path = "/api/upload-file" ->
            [files |-> [file |-> <<PngFile>>, image |-> <<>>], body |-> <<>>]
      [] path = "/api/upload-metadata" ->
            [files |-> [file |-> <<>>, image |-> <<>>],
             body |-> [metadata |-> JSONparse(NamedMetadata).value]]
      [] path = "/api/upload-nft" ->
            [files |-> [file |-> <<>>, image |-> <<PngFile>>],
             body |-> [metadata |-> NamedMetadata]]
      [] OTHER -> [files |-> [file |-> <<>>, image |-> <<>>], body |-> <<>>]

NextLimits ==
    \/ \E path \in Paths : Request(path, wellFormed(path), PinataOk(QmImage), PinataOk(QmMeta))
    \/ \E limiter \in Limiters : Wait(limiter)

SpecLimits == Init /\ [][NextLimits]_vars

-----------------------------------------------------------------------------
(* Specification SpecUpload: requests to POST /api/upload-nft *)

\* {"name":"Aura","image":"mine"}
OwnImageMetadata ==
    << 123, 34, 110, 97, 109, 101, 34, 58, 34, 65, 117, 114, 97, 34, 44, 34, 105, 109,
       97, 103, 101, 34, 58, 34, 109, 105, 110, 101, 34, 125 >>

EmptyObject == << 123, 125 >>                                                   \* {}
NullText    == << 110, 117, 108, 108 >>                                         \* null
Truncated   == << 123, 34, 110, 97, 109, 101, 34, 58, 34, 65, 117, 114, 97, 34 >>  \* {"name":"Aura"
PlainText   == << 97, 117, 114, 97 >>                                           \* aura

\* multipart requests: with and without the image, with and without the metadata field
NftRequests ==
    { [files |-> [file |-> <<>>, image |-> image], body |-> body] :
        image \in {<<>>, <<PngFile>>, <<EmptyFile>>},
        body \in {<<>>} \cup
                 { [metadata |-> text] :
                      text \in {<<>>, NamedMetadata, OwnImageMetadata, EmptyObject, NullText,
                                Truncated, PlainText} } }

NextUpload ==
    \/ \E req \in NftRequests,
          imageResponse \in {PinataOk(QmImage), PinataDown},
          metadataResponse \in {PinataOk(QmMeta), PinataDown} :
          Request("/api/upload-nft", req, imageResponse, metadataResponse)
    \/ \E limiter \in {generalLimiter, nftLimiter} : Wait(limiter)

SpecUpload == Init /\ [][NextUpload]_vars

-----------------------------------------------------------------------------
(* Properties *)

SketchIds == 1..Len(sketches)

SameInputs(a, b) == a.seed = b.seed /\ a.count = b.count

C2_RarityBounds ==
    \A i \in 1..Len(calls) : calls[i].score >= 0 /\ calls[i].score <= 100

C2_Witness ==
    /\ calls # <<>>
    /\ calls[1].tx_count = 6000
    /\ calls[1].mood_seed = Journey
    /\ calls[1].score = 100

\* the rarity formula as the specification states it, from the count and the byte length
TierBase(count) ==
    IF count > 5000 THEN 90
    ELSE IF count > 1000 THEN 80
    ELSE IF count > 500 THEN 70
    ELSE IF count > 100 THEN 60
    ELSE IF count > 50 THEN 50
    ELSE 40

LengthBonus(length) == IF length > 20 THEN 15 ELSE IF length > 10 THEN 10 ELSE 5

LengthDiversityBonus(length) == IF length > 20 THEN 10 ELSE IF length >= 6 THEN 5 ELSE 0

C4_RarityMonotone ==
    \A i \in 1..Len(calls) : \A b \in TxCounts :
        calls[i].tx_count <= b =>
            /\ calls[i].base <= base_rarity(b)
            /\ calls[i].score <= calculate_rarity(b, calls[i].mood_seed)

C4_Witness ==
    /\ calls # <<>>
    /\ calls[1].tx_count = 999
    /\ calls[1].mood_seed = Happy
    /\ calls[1].base < base_rarity(1001)
    /\ calls[1].score < calculate_rarity(1001, Happy)

KeywordTable ==
    << <<MoodHappy, PaletteHappy>>, <<MoodCalm, PaletteCalm>>,
       <<MoodEnergetic, PaletteEnergetic>>, <<MoodPeaceful, PalettePeaceful>>,
       <<MoodMysterious, PaletteMysterious>>, <<MoodPassionate, PalettePassionate>> >>

KeywordOccurs(k, seed) ==
    LET lower == toLowerCase(Utf16(seed))
        word  == KeywordTable[k][1]
    IN  includes(lower, word) \/ includes(lower, SubSeq(word, 1, 4))

CalmHappy == MoodCalm \o <<32>> \o MoodHappy
UpperHappy == <<72, 65, 80, 80, 89>>

\* C6: palette choice. getMoodPalette returns the palette of the first table entry whose
\* keyword or first four letters occurs in the lower-cased seed, whatever the position
\* and the letter case of the occurrence, and the default palette when none occurs.
C6_PaletteChoice ==
    \A i \in 1..Len(pcalls) :
        LET seed == pcalls[i].seed
            hits == {k \in 1..Len(KeywordTable) : KeywordOccurs(k, seed)}
        IN  /\ hits = {} => pcalls[i].palette = PaletteDefault
            /\ \A k \in hits :
                  (\A m \in hits : k <= m) => pcalls[i].palette = KeywordTable[k][2]
            /\ seed = Xyz123 => pcalls[i].palette = PaletteDefault
            /\ seed = CalmHappy => pcalls[i].palette = PaletteHappy
            /\ seed = UpperHappy => pcalls[i].palette = PaletteHappy

C6_Witness ==
    /\ pcalls # <<>>
    /\ pcalls[1].seed = CalmHappy
    /\ pcalls[1].palette = PaletteHappy

FailsValidation(seed) ==
    \/ Len(Utf16(seed)) > 100
    \/ \E i \in 1..Len(seed) :
          \/ seed[i] \in {Lt, Gt, DoubleQuote, SingleQuote}
          \/ seed[i] <= 31
          \/ seed[i] >= 127 /\ seed[i] <= 159

\* C8: validation precedes generation. No sketch is built, and so no image delivered,
\* for a non-empty seed that fails validation or for a negative count.
C8_ValidationPrecedesGeneration ==
    \A i \in SketchIds :
        ~FailsValidation(sketches[i].seed) /\ sketches[i].count >= 0

\* C9: the empty seed is rejected by the engine. No generation is started and no sketch
\* is built for moodSeed = '', the effect of a generator mounted with it returns at its
\* guard, and validateMoodSeed reports '' invalid.
C9_EmptySeedRejected ==
    /\ \A i \in 1..Len(loads) : loads[i].seed # Empty
    /\ \A i \in SketchIds : sketches[i].seed # Empty
    /\ (instance # 0 /\ moodSeed = Empty) =>
          (~isGeneratingRef /\ ~cleanup /\ loads = <<>> /\ timers = {} /\ delivered = <<>>)
    /\ \A i \in 1..Len(vcalls) : vcalls[i].seed = Empty => ~vcalls[i].result.isValid

C9_Witness ==
    /\ instance # 0
    /\ moodSeed = Empty
    /\ transactionCount = 5
    /\ sketches = <<>>
    /\ imageData = <<>>
    /\ vcalls # <<>>
    /\ vcalls[1].seed = Empty
    /\ ~vcalls[1].result.isValid

\* a seed that is valid as C10 states it
StatedValid(seed) ==
    /\ Len(seed) >= 1
    /\ Len(seed) <= 100
    /\ \A i \in 1..Len(seed) :
          /\ seed[i] \notin {Lt, Gt, DoubleQuote, SingleQuote}
          /\ seed[i] > 31
          /\ ~(seed[i] >= 127 /\ seed[i] <= 159)

\* C10: validateMoodSeed with default options accepts a seed exactly when it has 1 to 100
\* code points, no control character and none of < > " '.
C10_ValidExactly ==
    \A i \in 1..Len(vcalls) : vcalls[i].result.isValid <=> StatedValid(vcalls[i].seed)

\* the image the present inputs render
finalImage == toDataURL(newSketch(instance, moodSeed, transactionCount).canvas)

\* nothing of a generation is pending in a mounted generator with a seed
settled == instance # 0 /\ moodSeed # Empty /\ loads = <<>> /\ timers = {}

\* C11: generations with different inputs do not interfere. Once the inputs stay fixed
\* and no load and no capture timer is pending, an image was delivered and the image
\* delivered last is the one rendered from the final inputs, by the current sketch.
C11_NoInterference ==
    settled =>
        /\ delivered # <<>>
        /\ imageData = finalImage
        /\ delivered[Len(delivered)].sketch = p5InstanceRef

\* the particle count as C12 states it: the floor, the cap and count + 10 between them
StatedParticleCount(count) ==
    IF count <= 5 THEN 15 ELSE IF count >= 25 THEN 35 ELSE count + 10

LayerRank(layer) ==
    CASE layer = "background" -> 0
      [] layer = "gradient"   -> 1
      [] layer = "waveform"   -> 2
      [] layer = "particle"   -> 3
      [] layer = "core"       -> 4

\* the positions of a canvas that hold an element of the layer
LayerAt(canvas, layer) == {k \in 1..Len(canvas) : canvas[k].layer = layer}

\* C13: drawStaticAura draws strictly back to front. On every canvas the gradient comes
\* first (on the cleared background), then the waveforms in index order, then the
\* particles in index order, then the core; no element of a later layer comes before one
\* of an earlier layer; each waveform and particle of the sketch is drawn once; and a
\* particle has its line to the centre exactly when its index is a multiple of 5.
C13_BackToFront ==
    \A i \in SketchIds :
        LET canvas == sketches[i].canvas
            nw == Len(sketches[i].waveforms)
            np == Len(sketches[i].particles)
        IN  /\ Len(canvas) = 3 + nw + np
            /\ \A k, l \in 1..Len(canvas) :
                  k < l => LayerRank(canvas[k].layer) <= LayerRank(canvas[l].layer)
            /\ LayerAt(canvas, "background") = {1}
            /\ LayerAt(canvas, "gradient") = {2}
            /\ LayerAt(canvas, "waveform") = 3..(2 + nw)
            /\ LayerAt(canvas, "particle") = (3 + nw)..(2 + nw + np)
            /\ LayerAt(canvas, "core") = {Len(canvas)}
            /\ \A k \in 1..nw : canvas[2 + k].index = k - 1
            /\ \A k \in 1..np :
                  /\ canvas[2 + nw + k].index = k - 1
                  /\ canvas[2 + nw + k].line <=> ((k - 1) % 5 = 0)

C13_Witness ==
    /\ Len(sketches) = 1
    /\ Len(sketches[1].waveforms) = 5
    /\ Len(sketches[1].particles) = 35
    /\ sketches[1].canvas[7 + 11].line
    /\ ~sketches[1].canvas[7 + 12].line
    /\ imageData = toDataURL(sketches[1].canvas)

\* the AuraMintedEvents among the events, in the order they were emitted
MintedEvents(all) == SelectSeq(all, LAMBDA e : e.type = "AuraMintedEvent")

\* the event carries what the record holds
EventOfRecord(event, record) ==
    /\ event.creator = record.creator
    /\ event.mood_seed = record.mood_seed
    /\ event.transaction_count = record.transaction_count
    /\ event.rarity_score = record.rarity_score
    /\ event.timestamp = record.minted_at

\* C14: every successful mint_aura stores one token record with the given mood seed and
\* transaction count, the caller as creator and the rarity calculate_rarity gives for
\* them, and emits exactly one AuraMintedEvent, which carries the creator, mood seed,
\* transaction count, rarity score and timestamp of that record.
C14_MintRecorded ==
    /\ Len(MintedEvents(events)) = Len(AuraNFT)
    /\ \A k \in 1..Len(AuraNFT) : EventOfRecord(MintedEvents(events)[k], AuraNFT[k])
    /\ (lastTx.fn = "mint_aura" /\ lastTx.status = "executed") =>
          LET record == AuraNFT[Len(AuraNFT)]
              event  == events[Len(events)]
          IN  /\ AuraNFT = Append(lastTx.before.AuraNFT, record)
              /\ record.mood_seed = lastTx.mood_seed
              /\ record.transaction_count = lastTx.transaction_count
              /\ record.creator = lastTx.sender
              /\ record.rarity_score
                    = calculate_rarity(lastTx.transaction_count, lastTx.mood_seed)
              /\ record.minted_at = lastTx.time
              /\ event.type = "AuraMintedEvent"
              /\ event.token_name = lastTx.token_name
              /\ EventOfRecord(event, record)
              /\ Len(MintedEvents(events)) = Len(MintedEvents(lastTx.before.events)) + 1

C14_Witness ==
    /\ lastTx.fn = "mint_aura"
    /\ lastTx.status = "executed"
    /\ lastTx.sender = "0xb0b"
    /\ lastTx.mood_seed = Journey
    /\ lastTx.transaction_count = 6000
    /\ Len(AuraNFT) = 2
    /\ AuraNFT[2].rarity_score = 100
    /\ AuraNFT[1].creator = "0xa11ce"
    /\ AuraNFT[2].minted_at = 1

\* the mood seeds, token names and URIs that C15 says make mint_aura abort
StatedBadSeed(bytes) ==
    \/ Len(bytes) = 0
    \/ Len(bytes) > 100
    \/ \E i \in 1..Len(bytes) : bytes[i] < 32 \/ bytes[i] \in {60, 62, 34, 39}

StatedBadName(bytes) == Len(bytes) = 0 \/ Len(bytes) > 50

StatedBadUri(bytes) == Len(bytes) = 0

AbortedWith(code) ==
    lastTx.status = "aborted" /\ lastTx.origin = "aura_nft" /\ lastTx.code = code

\* C15: mint_aura aborts with E_INVALID_MOOD_SEED for a mood seed of length 0 or above 100
\* or with a byte below 32 or one of < > " ', with E_INVALID_TOKEN_NAME for an empty token
\* name or one longer than 50, with E_INVALID_URI for an empty URI (the first failing
\* check of the three, in this order, gives the code), and with none of these codes
\* otherwise; at such an abort the transaction had created or changed nothing, and after
\* it the collections, the tokens and the events are those before it.
C15_InvalidMintAborts ==
    lastTx.fn = "mint_aura" =>
        LET badSeed == StatedBadSeed(lastTx.mood_seed)
            badName == StatedBadName(lastTx.token_name)
            badUri  == StatedBadUri(lastTx.uri)
        IN  /\ badSeed <=> AbortedWith(E_INVALID_MOOD_SEED)
            /\ (~badSeed /\ badName) <=> AbortedWith(E_INVALID_TOKEN_NAME)
            /\ (~badSeed /\ ~badName /\ badUri) <=> AbortedWith(E_INVALID_URI)
            /\ (badSeed \/ badName \/ badUri) =>
                  /\ ~lastTx.dirty
                  /\ World = lastTx.before
            /\ lastTx.status = "aborted" => World = lastTx.before

C15_Witness ==
    /\ lastTx.fn = "mint_aura"
    /\ AbortedWith(E_INVALID_TOKEN_NAME)
    /\ Len(lastTx.token_name) = 51
    /\ Len(AuraNFT) = 1
    /\ AuraNFT[1].creator = lastTx.sender
    /\ AuraCollection[lastTx.sender][1].total_minted = 1
    /\ AuraCollection["0xb0b"] = <<>>

\* the CollectionCreatedEvents of an account among the events
CreatedEvents(creator) ==
    SelectSeq(events, LAMBDA e : e.type = "CollectionCreatedEvent" /\ e.creator = creator)

\* C16: the collection is created once per account. create_collection by an account
\* that has an AuraCollection, from create_collection or from its first mint_aura,
\* aborts with E_COLLECTION_ALREADY_EXISTS and changes nothing; no account has more than
\* one collection created, and a collection, once there, keeps its creator.
C16_CollectionOnce ==
    /\ \A a \in Accounts :
          /\ Len(CreatedEvents(a)) = Len(AuraCollection[a])
          /\ AuraCollection[a] # <<>> => AuraCollection[a][1].creator = a
    /\ lastTx.fn = "create_collection" =>
          /\ lastTx.before.AuraCollection[lastTx.sender] # <<>> =>
                /\ AbortedWith(E_COLLECTION_ALREADY_EXISTS)
                /\ ~lastTx.dirty
                /\ World = lastTx.before
          /\ lastTx.status = "executed" => lastTx.before.AuraCollection[lastTx.sender] = <<>>

C16_Witness ==
    /\ lastTx.fn = "create_collection"
    /\ AbortedWith(E_COLLECTION_ALREADY_EXISTS)
    /\ Len(events) = 2
    /\ events[1].type = "CollectionCreatedEvent"
    /\ events[2].type = "AuraMintedEvent"
    /\ events[1].creator = lastTx.sender
    /\ events[1].timestamp = events[2].timestamp
    /\ now > events[1].timestamp

\* the base rarity of the README's table: 5000+, 1000-4999, 500-999, 100-499, 50-99, <50
ReadmeBase(count) ==
    IF count >= 5000 THEN 90
    ELSE IF count >= 1000 THEN 80
    ELSE IF count >= 500 THEN 70
    ELSE IF count >= 100 THEN 60
    ELSE IF count >= 50 THEN 50
    ELSE 40

\* C18: the base rarity follows the README's table. Every call of calculate_rarity took
\* the base the table gives for its transaction count.
C18_ReadmeTable ==
    \A i \in 1..Len(calls) : calls[i].base = ReadmeBase(calls[i].tx_count)

\* C17: a failed upload falls back to demo mode. A run of mintNFT that ended after its
\* upload failed submitted a mint transaction, with the placeholder URI.
C17_UploadFallback ==
    \A i \in 1..Len(runs) :
        (runs[i].pc = "done" /\ runs[i].upload = "failed") =>
            /\ runs[i].hash # 0
            /\ submitted[runs[i].hash].uri = Utf8(demoUri(runs[i].tokenName))


\* the limit the README's table gives for the tier of a path
DocumentedLimit(path) ==
    CASE path = "/health"              -> 60
      [] path = "/api/upload-file"     -> 10
      [] path = "/api/upload-metadata" -> 10
      [] path = "/api/upload-nft"      -> 5
      [] OTHER                         -> 100

\* C19: the n-th request of a client to the endpoints of a tier within one window of
\* the tier is answered 429 with success: false exactly when n exceeds the tier's
\* documented limit, and a request answered 429 runs no handler and makes no call
\* to Pinata.
C19_DocumentedLimits ==
    lastResponse.path # "none" =>
        /\ (lastResponse.status = 429) <=> (lastResponse.n > DocumentedLimit(lastResponse.path))
        /\ lastResponse.status = 429 =>
              /\ lastResponse.success = "false"
              /\ lastResponse.handler = "none"
              /\ lastResponse.pins = <<>>

\* the texts of NftRequests that are JSON
JsonTexts == {NamedMetadata, OwnImageMetadata, EmptyObject, NullText}

\* C20: a request to POST /api/upload-nft that the limiters let pass calls Pinata for
\* the image first and for the metadata only after the image is pinned; the metadata
\* it pins has as image the gateway URL of the hash Pinata returned for that image;
\* when both are pinned it answers success: true with hash and url of the metadata and
\* imageHash and imageUrl of the image; when the image is not pinned it makes no call
\* for the metadata and answers 500 with success: false; without image, without
\* metadata or with metadata that is no JSON it answers 400 with success: false and
\* makes no call to Pinata.
C20_UploadNft ==
    (lastResponse.path = "/api/upload-nft" /\ lastResponse.status # 429) =>
        LET req == lastResponse.req
            pins == lastResponse.pins
            body == lastResponse.body
            wellFormedReq == /\ req.files.image # <<>>
                             /\ "metadata" \in DOMAIN req.body
                             /\ req.body.metadata \in JsonTexts
        IN  /\ ~wellFormedReq =>
                  /\ lastResponse.status = 400
                  /\ lastResponse.success = "false"
                  /\ pins = <<>>
            /\ Len(pins) <= 2
            /\ pins # <<>> =>
                  /\ pins[1].api = "pinFileToIPFS"
                  /\ pins[1].content = req.files.image[1].buffer
            /\ (pins # <<>> /\ ~pins[1].ok) =>
                  /\ Len(pins) = 1
                  /\ lastResponse.status = 500
                  /\ lastResponse.success = "false"
            /\ Len(pins) = 2 =>
                  /\ pins[1].ok
                  /\ pins[2].api = "pinJSONToIPFS"
                  /\ pins[2].content[KeyImage] = Gateway \o pins[1].IpfsHash
            /\ (Len(pins) = 2 /\ pins[2].ok) =>
                  /\ lastResponse.status = 200
                  /\ lastResponse.success = "true"
                  /\ body.hash = pins[2].IpfsHash
                  /\ body.url = Gateway \o pins[2].IpfsHash
                  /\ body.imageHash = pins[1].IpfsHash
                  /\ body.imageUrl = Gateway \o pins[1].IpfsHash
            /\ lastResponse.status = 200 => (Len(pins) = 2 /\ pins[2].ok)

\* the second request of a window, whose metadata names an image of its own, is
\* answered with success
C20_Witness ==
    /\ lastResponse.path = "/api/upload-nft"
    /\ lastResponse.status = 200
    /\ lastResponse.n = 2
    /\ lastResponse.req.body = [metadata |-> OwnImageMetadata]
    /\ lastResponse.pins[1].IpfsHash = QmImage
    /\ lastResponse.body.metadata[KeyImage] = Gateway \o QmImage

\* the calls of mintNFT that have not returned
inProgress == {i \in 1..Len(runs) : runs[i].pc # "done"}

\* C21: at most one call of mintNFT is in progress at any time, its awaits before
\* setLoading(true) included, so no second click starts a flow while one is running.
C21_OneMintFlow == Cardinality(inProgress) <= 1

\* the mint transactions of runs that passed validateMoodSeed
sentByMintNFT ==
    /\ lastTx.fn = "mint_aura"
    /\ \E i \in 1..Len(runs) :
          /\ runs[i].hash # 0
          /\ submitted[runs[i].hash].mood_seed = lastTx.mood_seed
          /\ submitted[runs[i].hash].token_name = lastTx.token_name
          /\ validateMoodSeed(Utf16(runs[i].moodSeed)).isValid

\* C22: the token name mintNFT builds from a seed validateMoodSeed accepted has 1 to 50
\* characters, so the mint transaction it submits never aborts with E_INVALID_TOKEN_NAME.
C22_TokenNameAccepted ==
    sentByMintNFT =>
        /\ Len(lastTx.token_name) >= 1
        /\ Len(lastTx.token_name) <= MAX_TOKEN_NAME_LENGTH
        /\ lastTx.code # E_INVALID_TOKEN_NAME

\* C23: a seed validateMoodSeed accepted is accepted by validate_mood_seed as mintNFT
\* sends it: 1 to 100 bytes, none below 32 and none of < > " ', so the mint transaction
\* never aborts with E_INVALID_MOOD_SEED.
C23_SeedAcceptedByContract ==
    sentByMintNFT =>
        /\ Len(lastTx.mood_seed) >= MIN_MOOD_SEED_LENGTH
        /\ Len(lastTx.mood_seed) <= MAX_MOOD_SEED_LENGTH
        /\ \A k \in 1..Len(lastTx.mood_seed) :
              /\ lastTx.mood_seed[k] >= 32
              /\ lastTx.mood_seed[k] \notin {Lt, Gt, DoubleQuote, SingleQuote}
        /\ lastTx.code # E_INVALID_MOOD_SEED

\* the image of some sketch that was set up from this seed and this count
generatedFrom(image, seed, count) ==
    \E k \in DOMAIN sketches :
        /\ sketches[k].seed = seed
        /\ sketches[k].count = count
        /\ toDataURL(sketches[k].canvas) = image

\* C24: whenever mintNFT has uploaded state.imageData or submitted a transaction, the
\* image it read was generated from the moodSeed and the transactionCount it sends
C24_ImageOfMintedInputs ==
    \A i \in 1..Len(runs) :
        (runs[i].upload = "pinned" \/ runs[i].hash # 0)
            => generatedFrom(runs[i].imageData, runs[i].moodSeed, runs[i].transactionCount)

\* the errors of the five checks that precede setLoading(true)
checkErrors == {"networkMismatch", "walletConnection", "moodSeed", "transactionCount", "imageData"}

\* the run passed the network check and the four validations
passedChecks(run) ==
    /\ run.networkCheck = "compatible"
    /\ validateWalletConnection(run.account)
    /\ validateMoodSeed(Utf16(run.moodSeed)).isValid
    /\ validateTransactionCount(run.transactionCount)
    /\ validateImageData(run.imageData)

\* the error the run shows is the error of its first failing check, in the order network,
\* wallet connection, mood seed, transaction count, image data
reportsFirstFailing(run) ==
    /\ run.shown = "networkMismatch" => run.networkCheck = "mismatch"
    /\ run.shown = "walletConnection" =>
          /\ run.networkCheck = "compatible"
          /\ ~validateWalletConnection(run.account)
    /\ run.shown = "moodSeed" =>
          /\ run.networkCheck = "compatible"
          /\ validateWalletConnection(run.account)
          /\ ~validateMoodSeed(Utf16(run.moodSeed)).isValid
    /\ run.shown = "transactionCount" =>
          /\ run.networkCheck = "compatible"
          /\ validateWalletConnection(run.account)
          /\ validateMoodSeed(Utf16(run.moodSeed)).isValid
          /\ ~validateTransactionCount(run.transactionCount)
    /\ run.shown = "imageData" =>
          /\ run.networkCheck = "compatible"
          /\ validateWalletConnection(run.account)
          /\ validateMoodSeed(Utf16(run.moodSeed)).isValid
          /\ validateTransactionCount(run.transactionCount)
          /\ ~validateImageData(run.imageData)

\* a run whose checks resolved either passed them all or returned with the error of the
\* first failing one, having uploaded and submitted nothing
checksGuardMint ==
    \A i \in 1..Len(runs) :
        LET run == runs[i] IN
        /\ run.networkCheck # "pending" => (passedChecks(run) \/ run.shown \in checkErrors)
        /\ (run.pc \in {"storage", "upload", "sign", "wait"} \/ run.upload # "none" \/ run.hash # 0)
              => passedChecks(run)
        /\ run.shown \in checkErrors =>
              /\ reportsFirstFailing(run)
              /\ run.pc = "done"
              /\ run.upload = "none"
              /\ run.tokenName = <<>>
              /\ run.hash = 0

\* the step in which a run returns at a failing check sets neither loading nor the
\* transaction hash and submits nothing
returnsUntouched ==
    \A i \in 1..Len(runs) :
        (runs[i].pc = "network" /\ runs'[i].shown \in checkErrors)
            => UNCHANGED <<loading, lastTransactionHash, submitted, lastTx>>

startedRuns == {i \in 1..Len(runs) : runs[i].started # 0}

mostRecentMint == CHOOSE i \in startedRuns : \A j \in startedRuns : runs[j].started <= runs[i].started

\* C26: lastTransactionHash is non-empty only when the most recent mint attempt was
\* confirmed by waitForTransaction, and then it is the hash of that attempt
C26_HashOfLastMint ==
    lastTransactionHash # 0 =>
        /\ startedRuns # {}
        /\ runs[mostRecentMint].hash = lastTransactionHash
        /\ runs[mostRecentMint].pc = "done"
        /\ runs[mostRecentMint].shown = "success"

\* run i set loading and has come to its end, where finally called setLoading(false)
finished(i) == i \in startedRuns /\ runs[i].pc = "done" /\ ~loading

\* C27: every mintNFT run that set loading to true eventually ends with setLoading(false),
\* whatever its outcome, so loading never stays true forever
C27_LoadingReset ==
    /\ \A i \in 1..MaxLiveRuns : (i \in startedRuns) ~> finished(i)
    /\ loading ~> ~loading

\* a run that set loading has ended in catch after its transaction failed on the chain
C27_Witness ==
    /\ ~loading
    /\ \E i \in startedRuns :
          /\ runs[i].pc = "done"
          /\ runs[i].hash # 0
          /\ runs[i].status = "aborted"
          /\ runs[i].shown = "error"

====
